---- MODULE Spec2Model ----
(***************************************************************************)
(* hatch-meson: the build hook of src/hatch_meson/plugin.py: configuring   *)
(* and building the Meson project, the install-plan translation and the    *)
(* wheel-tag computation.                                                   *)
(*                                                                         *)
(* Text is modelled as a sequence of one-character strings, a path as a    *)
(* sequence of names (path components), a file's content as the sequence   *)
(* of its leading bytes.                                                   *)
(***************************************************************************)
EXTENDS Integers, Sequences, FiniteSets, TLC

VARIABLES
    sources,      \* the records of the install plan, in dict order
    platform,     \* sys.platform of the build host
    pypy,         \* "__pypy__" in sys.builtin_module_names
    limited_api,  \* the limited-API setting in force for the build
    map_result,   \* outcome of the last direct call of _map_to_wheel(sources)
    prev_result,  \* outcome of the direct call of _map_to_wheel before that
    tag_result,   \* a direct call of _compute_tag: the plan given and the outcome
    install_plan, \* install_plan of MesonBuildHook.initialize
    build_data,   \* hatchling's build_data dict, mutated by initialize
    copied,       \* <<src, dst>> pairs initialize passed to shutil.copy
    hook_error,   \* the exception initialize raised
    pc,           \* position of the wheel build: "start", "built", "done", "failed"
    environ,      \* os.environ: the variables the plugin reads or sets
    system,       \* the machine: programs on the path, Meson's answers, the interpreter
    disk,         \* the build directory and the files the plugin writes there
    config,       \* [tool.hatch.build.hooks.meson] as parsed into HatchMesonConfig
    config_settings, \* the config settings given on the command line
    hook,         \* the MesonBuildHook instance: its attributes and lru_caches
    log,          \* what the current initialize did, in order: commands run, files read
    call          \* a direct call of a helper function: its arguments and outcome

\* The variables of the install-plan translation and of the tag.
core == <<sources, platform, pypy, limited_api, map_result, prev_result,
          tag_result, install_plan, build_data, copied, hook_error, pc>>

\* The variables of the process around it.
ext == <<environ, system, disk, config, config_settings, hook, log, call>>

vars == <<core, ext>>

\* Python's None.
None == "None"

\* None where a text is expected: no text has a several-character element.
NoText == <<None>>

\* No call made yet, and no exception raised.
NoResult == [called |-> FALSE]
NoError == [type |-> "none"]

\* ---------------------------------------------------------------- bounds
\* Largest number of records in an install plan.
MaxRecords == 3

\* Largest number of builds in one process.
MaxBuilds == 3

\* ------------------------------------------------------------------ text
\* ord() of the characters that occur in the modelled names.
Ord(c) ==
    CASE c = "-" -> 45  [] c = "." -> 46  [] c = "/" -> 47
      [] c = "3" -> 51
      [] c = "B" -> 66
      [] c = "_" -> 95
      [] c = "a" -> 97  [] c = "b" -> 98  [] c = "c" -> 99  [] c = "d" -> 100
      [] c = "e" -> 101 [] c = "f" -> 102 [] c = "g" -> 103 [] c = "h" -> 104
      [] c = "i" -> 105 [] c = "l" -> 108 [] c = "m" -> 109 [] c = "o" -> 111
      [] c = "p" -> 112 [] c = "s" -> 115 [] c = "t" -> 116 [] c = "u" -> 117
      [] c = "v" -> 118 [] c = "w" -> 119 [] c = "x" -> 120 [] c = "y" -> 121
      [] c = "z" -> 122

\* Python's str.__lt__: lexicographic order on code points.
RECURSIVE StrLess(_, _)
StrLess(a, b) ==
    IF a = <<>> THEN b # <<>>
    ELSE IF b = <<>> THEN FALSE
    ELSE IF Head(a) = Head(b) THEN StrLess(Tail(a), Tail(b))
    ELSE Ord(Head(a)) < Ord(Head(b))

\* str.split(sep) for a one-character separator.
RECURSIVE Split(_, _)
Split(s, sep) ==
    IF \A i \in 1..Len(s) : s[i] # sep THEN <<s>>
    ELSE LET i == CHOOSE k \in 1..Len(s) :
                      s[k] = sep /\ \A j \in 1..(k - 1) : s[j] # sep
         IN <<SubSeq(s, 1, i - 1)>> \o Split(SubSeq(s, i + 1, Len(s)), sep)

\* sorted() of a list of names.
sorted(names) == SortSeq(names, StrLess)

\* Concatenation of a sequence of sequences.
RECURSIVE Flatten(_)
Flatten(ss) == IF ss = <<>> THEN <<>> ELSE Head(ss) \o Flatten(Tail(ss))

\* The elements of a sequence.
Range(s) == {s[i] : i \in 1..Len(s)}

\* Spellings used below.
so == <<"s", "o">>
py == <<"p", "y">>
abi3 == <<"a", "b", "i", "3">>
cp3 == <<"c", "p", "3">>
DotName == <<".">>
DotDot == <<".", ".">>
N_x_abi3_so == <<"x", ".">> \o abi3 \o <<".">> \o so
N_y_cp3_so == <<"y", ".">> \o cp3 \o <<".">> \o so
N_z_so == <<"z", ".">> \o so
N_w_cp3_x_so == <<"w", ".">> \o cp3 \o <<".", "x", ".">> \o so
N_m_py == <<"m", ".">> \o py
N_a_py == <<"a", ".">> \o py
N_b_py == <<"b", ".">> \o py
N_B_py == <<"B", ".">> \o py
N_d_py == <<"d", ".">> \o py
N_f_py == <<"f", ".">> \o py
N_h_so == <<"h", ".">> \o so
N_build == <<"b", "u", "i", "l", "d">>
N_pkg == <<"p">>
N_c == <<"c">>
N_e == <<"e">>
N_g == <<"g">>
N_t == <<"t">>
N_u == <<"u">>
N_v == <<"v">>
N_s == <<"s">>

\* ------------------------------------------------------------ file system
\* The build tree the install plan refers to.
BuildRoot == <<N_build>>
PkgDir == BuildRoot \o <<N_pkg>>

\* A directory of files of many kinds, outside the build tree.
BinDir == <<<<"b", "i", "n">>>>

Dirs ==
    { BuildRoot,
      PkgDir,
      PkgDir \o <<N_c>>,
      PkgDir \o <<N_c, N_e>>,
      PkgDir \o <<N_g>> }

\* Leading bytes of every regular file.
ELF == <<127, 69, 76, 70>>
MZ == <<77, 90>>
MachO64 == <<207, 250, 237, 254>>
Shebang == <<35, 33, 47, 98>>

FileContent ==
    (BuildRoot \o <<N_x_abi3_so>>) :> ELF \o <<2, 1>>
 @@ (BuildRoot \o <<N_y_cp3_so>>) :> ELF \o <<2, 1>>
 @@ (BuildRoot \o <<N_z_so>>) :> ELF \o <<2, 1>>
 @@ (BuildRoot \o <<N_w_cp3_x_so>>) :> ELF \o <<2, 1>>
 @@ (BuildRoot \o <<N_m_py>>) :> <<105, 109, 112, 111, 114>>
 @@ (BuildRoot \o <<N_t>>) :> ELF \o <<2, 1>>
 @@ (BuildRoot \o <<N_u>>) :> MZ \o <<144, 0, 3>>
 @@ (BuildRoot \o <<N_v>>) :> MachO64 \o <<12, 0>>
 @@ (BuildRoot \o <<N_s>>) :> Shebang \o <<105, 110>>
 @@ (PkgDir \o <<N_B_py>>) :> <<>>
 @@ (PkgDir \o <<N_a_py>>) :> <<35>>
 @@ (PkgDir \o <<N_b_py>>) :> <<35>>
 @@ (PkgDir \o <<N_c, N_d_py>>) :> <<35>>
 @@ (PkgDir \o <<N_c, N_e, N_f_py>>) :> <<35>>
 @@ (PkgDir \o <<N_g, N_h_so>>) :> ELF \o <<2, 1>>
 @@ (BinDir \o <<<<"k", "0">>>>) :> <<>>
 @@ (BinDir \o <<<<"k", "1">>>>) :> <<77>>
 @@ (BinDir \o <<<<"k", "2">>>>) :> MZ
 @@ (BinDir \o <<<<"k", "3">>>>) :> <<90, 77, 144, 0>>
 @@ (BinDir \o <<<<"k", "4">>>>) :> MZ \o <<76, 70>>
 @@ (BinDir \o <<<<"k", "5">>>>) :> ELF
 @@ (BinDir \o <<<<"k", "6">>>>) :> <<127, 69, 76>>
 @@ (BinDir \o <<<<"k", "7">>>>) :> <<127, 69, 76, 71, 2, 1>>
 @@ (BinDir \o <<<<"k", "8">>>>) :> <<254, 237, 250, 206, 0, 0>>
 @@ (BinDir \o <<<<"k", "9">>>>) :> <<254, 237, 250, 207, 0, 0>>
 @@ (BinDir \o <<<<"k", "a">>>>) :> <<202, 254, 186, 190, 0, 0>>
 @@ (BinDir \o <<<<"k", "b">>>>) :> <<207, 250, 237>>
 @@ (BinDir \o <<<<"k", "c">>>>) :> <<206, 250, 237, 254, 7, 0>>

Files == DOMAIN FileContent

\* os.path.isdir
isdir(p) == p \in Dirs

\* The names in directory dir.
ChildNames(dir) ==
    { p[Len(dir) + 1] : p \in { q \in Dirs \cup Files :
                                  /\ Len(q) = Len(dir) + 1
                                  /\ SubSeq(q, 1, Len(dir)) = dir } }

RECURSIVE SetToSeq(_)
SetToSeq(S) == IF S = {} THEN <<>>
               ELSE LET x == CHOOSE y \in S : TRUE
                    IN <<x>> \o SetToSeq(S \ {x})

Reverse(s) == [i \in 1..Len(s) |-> s[Len(s) + 1 - i]]

\* The orders in which os.scandir may list a directory: the order is
\* unspecified, the model lets every call pick one of these.
ScanOrders == {"asc", "desc"}

\* os.scandir(dir), as os.walk uses it: the names of dir in listing order.
ScanDir(dir, scan) ==
    LET names == sorted(SetToSeq(ChildNames(dir)))
    IN IF scan = "asc" THEN names ELSE Reverse(names)

\* ------------------------------------------------------------------ paths
\* posixpath.normpath of a text: the components of the normalised path; an
\* absolute path keeps a leading "/" component.
RECURSIVE NormComps(_, _, _)
NormComps(comps, acc, initial) ==
    IF comps = <<>> THEN acc
    ELSE LET comp == Head(comps)
             rest == Tail(comps)
         IN IF comp = <<>> \/ comp = DotName
                THEN NormComps(rest, acc, initial)
            ELSE IF \/ comp # DotDot
                    \/ (~initial /\ acc = <<>>)
                    \/ (acc # <<>> /\ acc[Len(acc)] = DotDot)
                THEN NormComps(rest, Append(acc, comp), initial)
            ELSE IF acc # <<>>
                THEN NormComps(rest, SubSeq(acc, 1, Len(acc) - 1), initial)
            ELSE NormComps(rest, acc, initial)

normpath(text) ==
    IF text = <<>> THEN <<DotName>>
    ELSE LET initial == text[1] = "/"
             comps == NormComps(Split(text, "/"), <<>>, initial)
         IN IF initial THEN <<<<"/">>>> \o comps
            ELSE IF comps = <<>> THEN <<DotName>> ELSE comps

\* Length of the longest common prefix of two paths.
RECURSIVE CommonLen(_, _)
CommonLen(p, q) ==
    IF p = <<>> \/ q = <<>> \/ Head(p) # Head(q) THEN 0
    ELSE 1 + CommonLen(Tail(p), Tail(q))

\* os.path.relpath(path, start) for two normalised paths.
relpath(path, start) ==
    LET i == CommonLen(path, start)
        rel == [k \in 1..(Len(start) - i) |-> DotDot]
                   \o SubSeq(path, i + 1, Len(path))
    IN IF rel = <<>> THEN <<DotName>> ELSE rel

\* pathlib.PurePath.name
PathName(p) == IF p = <<>> THEN <<>> ELSE p[Len(p)]

\* ----------------------------------------------------------------- mapper
\* A defaultdict(list): a function whose domain is the set of keys present.
EmptyDict == <<>>
DDGet(d, k) == IF k \in DOMAIN d THEN d[k] ELSE <<>>
DDExtend(d, k, es) ==
    IF k \in DOMAIN d THEN [d EXCEPT ![k] = @ \o es] ELSE d @@ (k :> es)

\* _INSTALLATION_PATH_MAP.get(anchor) with the moduledir_shared row wrong.
PathMap_shared_as_purelib(anchor) ==
    CASE anchor = "{bindir}" -> "scripts"
      [] anchor = "{py_purelib}" -> "purelib"
      [] anchor = "{py_platlib}" -> "platlib"
      [] anchor = "{moduledir_shared}" -> "purelib"
      [] anchor = "{datadir}" -> "data"
      [] OTHER -> None

\* _INSTALLATION_PATH_MAP.get(anchor)
_INSTALLATION_PATH_MAP(anchor) ==
    CASE anchor = "{bindir}" -> "scripts"
      [] anchor = "{py_purelib}" -> "purelib"
      [] anchor = "{py_platlib}" -> "platlib"
      [] anchor = "{moduledir_shared}" -> "platlib"
      [] anchor = "{datadir}" -> "data"
      [] OTHER -> None

\* The normalised exclusion set of a target.
exclude_set(texts) == { normpath(x) : x \in texts }

\* The pruning loop that drops nothing.
walk_dirnames_unpruned(src, root, dirnames, exclude_dirs) ==
    SortSeq(dirnames, StrLess)

\* The sub-directories os.walk descends into: those not in exclude_dirs,
\* sorted in place.
walk_dirnames(src, root, dirnames, exclude_dirs) ==
    sorted(SelectSeq(dirnames,
              LAMBDA name : relpath(root \o <<name>>, src) \notin exclude_dirs))

\* The file loop without sorted().
walk_files_unsorted(src, root, dst, filenames, exclude_files) ==
    LET kept == SelectSeq(filenames,
                    LAMBDA name : relpath(root \o <<name>>, src) \notin exclude_files)
    IN [i \in 1..Len(kept) |->
            <<dst \o relpath(root \o <<kept[i]>>, src), root \o <<kept[i]>>>>]

\* The entries of one visited directory: its files in sorted order, those
\* in exclude_files skipped.
walk_files(src, root, dst, filenames, exclude_files) ==
    LET names == sorted(filenames)
        kept == SelectSeq(names,
                    LAMBDA name : relpath(root \o <<name>>, src) \notin exclude_files)
    IN [i \in 1..Len(kept) |->
            <<dst \o relpath(root \o <<kept[i]>>, src), root \o <<kept[i]>>>>]

\* for root, dirnames, filenames in os.walk(src): ... from directory root on.
RECURSIVE walk_entries(_, _, _, _, _, _)
walk_entries(src, root, dst, exclude_files, exclude_dirs, scan) ==
    IF ~isdir(root) THEN <<>>
    ELSE LET listing == ScanDir(root, scan)
             subdirs == SelectSeq(listing, LAMBDA n : (root \o <<n>>) \in Dirs)
             filenames == SelectSeq(listing, LAMBDA n : (root \o <<n>>) \in Files)
             dirnames == walk_dirnames(src, root, subdirs, exclude_dirs)
         IN walk_files(src, root, dst, filenames, exclude_files)
            \o Flatten([i \in 1..Len(dirnames) |->
                   walk_entries(src, root \o <<dirnames[i]>>, dst,
                                exclude_files, exclude_dirs, scan)])

\* Whether the record is expanded as a directory.
is_directory_record(rec) ==
    rec.key = "install_subdirs" \/ (rec.key = "targets" /\ isdir(rec.src))

\* The entries one record contributes.
record_entries(rec, scan) ==
    LET dst == rec.target.destination.rest
    IN IF is_directory_record(rec)
       THEN walk_entries(rec.src, rec.src, dst,
                         exclude_set(rec.target.exclude_files),
                         exclude_set(rec.target.exclude_dirs), scan)
       ELSE <<<<dst, rec.src>>>>

\* The mapper's error raised as a configuration error.
MapErrorAsConfigError(destination) ==
    [type |-> "ConfigError",
     text |-> "Could not map installation path to an equivalent wheel directory",
     destination |-> destination]

\* raise BuildError(f"Could not map installation path ...: {str(destination)!r}")
MapError(destination) ==
    [type |-> "BuildError",
     text |-> "Could not map installation path to an equivalent wheel directory",
     destination |-> destination]

\* destination = pathlib.Path(target["destination"]) on an entry without one.
MissingDestination == [type |-> "KeyError", key |-> "destination"]

\* The loop that skips a record it cannot map instead of raising.
RECURSIVE map_loop_skip(_, _, _, _)
map_loop_skip(recs, i, wf, scan) ==
    IF i > Len(recs) THEN [raised |-> FALSE, value |-> wf]
    ELSE LET rec == recs[i]
             path == _INSTALLATION_PATH_MAP(rec.target.destination.anchor)
         IN IF path = None
            THEN map_loop_skip(recs, i + 1, wf, scan)
            ELSE map_loop_skip(recs, i + 1,
                          DDExtend(wf, path, record_entries(rec, scan)), scan)

\* The loop of _map_to_wheel from record i on, wheel_files being wf so far.
RECURSIVE map_loop(_, _, _, _)
map_loop(recs, i, wf, scan) ==
    IF i > Len(recs) THEN [raised |-> FALSE, value |-> wf]
    ELSE LET rec == recs[i]
             path == _INSTALLATION_PATH_MAP(rec.target.destination.anchor)
         IN IF "destination" \notin DOMAIN rec.target
            THEN [raised |-> TRUE, error |-> MissingDestination]
            ELSE IF path = None
            THEN [raised |-> TRUE, error |-> MapError(rec.target.destination)]
            ELSE map_loop(recs, i + 1,
                          DDExtend(wf, path, record_entries(rec, scan)), scan)

_map_to_wheel(recs, scan) == map_loop(recs, 1, EmptyDict, scan)

\* --------------------------------------------------- selective installation
\* Spellings of the install arguments.
Opt_tags == <<"-", "-", "t", "a", "g", "s">>
Opt_skip_subprojects == <<"-", "-", "s", "k", "i", "p", "-", "s", "u", "b", "p", "r", "o", "j", "e", "c", "t", "s">>
A_tags_eq == Opt_tags \o <<"=">>
A_tags_eq_rt == Opt_tags \o <<"=", "r", "t">>
A_tag_eq_dev == <<"-", "-", "t", "a", "g", "=", "d", "e", "v">>
A_skip_eq_s1_s2 == Opt_skip_subprojects \o <<"=", "s", "1", ",", "s", "2">>
A_skip_eq_star == Opt_skip_subprojects \o <<"=", "*">>
A_skip_eq_padded == Opt_skip_subprojects \o <<"=", " ", "s", "1", " ", ",">>
A_destdir == <<"-", "-", "d", "e", "s", "t", "d", "i", "r">>
A_dashdash == <<"-", "-">>
V_rt == <<"r", "t">>
V_dev == <<"d", "e", "v">>
V_rt_dev == <<"r", "t", ",", " ", "d", "e", "v">>
V_s1 == <<"s", "1">>
V_s2 == <<"s", "2">>
V_star == <<"*">>

Whitespace == {" ", "\n", "\t"}

\* str.strip()
RECURSIVE strip(_)
strip(s) ==
    IF s = <<>> THEN s
    ELSE IF s[1] \in Whitespace THEN strip(Tail(s))
    ELSE IF s[Len(s)] \in Whitespace THEN strip(SubSeq(s, 1, Len(s) - 1))
    ELSE s

\* str.startswith
StartsWith(s, prefix) ==
    Len(prefix) <= Len(s) /\ SubSeq(s, 1, Len(prefix)) = prefix

\* str.endswith
EndsWith(s, suffix) ==
    Len(suffix) <= Len(s) /\ SubSeq(s, Len(s) - Len(suffix) + 1, Len(s)) = suffix

\* The index of the first c in s, 0 when there is none.
IndexOf(s, c) ==
    IF \A i \in 1..Len(s) : s[i] # c THEN 0
    ELSE CHOOSE k \in 1..Len(s) : s[k] = c /\ \A j \in 1..(k - 1) : s[j] # c

\* parser.add_argument("--tags"); parser.add_argument("--skip-subprojects", ...)
OptionStrings == {Opt_tags, Opt_skip_subprojects}

\* The option string of an argument: the part before the first "=".
OptionPart(arg) ==
    IF IndexOf(arg, "=") = 0 THEN arg ELSE SubSeq(arg, 1, IndexOf(arg, "=") - 1)

\* The options of the parser an argument selects: the one it spells, or
\* those it abbreviates (allow_abbrev is left at its default).
OptionMatches(arg) ==
    IF Len(arg) < 2 \/ arg[1] # "-" THEN {}
    ELSE IF OptionPart(arg) \in OptionStrings THEN {OptionPart(arg)}
    ELSE IF StartsWith(arg, A_dashdash)
    THEN {o \in OptionStrings : StartsWith(o, OptionPart(arg))}
    ELSE {}

\* argparse takes an argument for an option rather than for a value.
LooksOptional(arg) ==
    /\ Len(arg) >= 2
    /\ arg[1] = "-"
    /\ (OptionMatches(arg) # {} \/ \A i \in 1..Len(arg) : arg[i] # " ")

\* The exit of parser.error()
ArgparseExit == [type |-> "SystemExit", code |-> 2]

\* parser.parse_known_args(args) from argument i on, ns being the namespace
\* so far: a later occurrence of an option replaces an earlier one, "--"
\* ends the options, arguments the parser does not know are passed over.
RECURSIVE parse_known_args(_, _, _)
parse_known_args(args, i, ns) ==
    IF i > Len(args) \/ args[i] = A_dashdash THEN [raised |-> FALSE, value |-> ns]
    ELSE LET arg == args[i]
             eq == IndexOf(arg, "=")
             explicit == SubSeq(arg, eq + 1, Len(arg))
             value_follows == i < Len(args) /\ ~LooksOptional(args[i + 1])
             matches == OptionMatches(arg)
         IN IF matches = {} THEN parse_known_args(args, i + 1, ns)
            ELSE IF Cardinality(matches) > 1
            THEN [raised |-> TRUE, error |-> ArgparseExit]
            ELSE IF Opt_tags \in matches
            THEN IF eq # 0
                 THEN parse_known_args(args, i + 1, [ns EXCEPT !.tags = explicit])
                 ELSE IF value_follows
                 THEN parse_known_args(args, i + 2, [ns EXCEPT !.tags = args[i + 1]])
                 ELSE [raised |-> TRUE, error |-> ArgparseExit]
            ELSE IF eq # 0
                 THEN parse_known_args(args, i + 1,
                                       [ns EXCEPT !.skip_subprojects = explicit])
                 ELSE IF value_follows
                 THEN parse_known_args(args, i + 2,
                                       [ns EXCEPT !.skip_subprojects = args[i + 1]])
                 ELSE parse_known_args(args, i + 1,
                                       [ns EXCEPT !.skip_subprojects = V_star])

\* The defaults of the two arguments: None and "".
DefaultNamespace == [tags |-> NoText, skip_subprojects |-> <<>>]

\* args.tags is truthy
tags_given(ns) == ns.tags # NoText /\ ns.tags # <<>>

\* {t.strip() for t in args.tags.split(",")}
install_tags(ns) == { strip(t) : t \in Range(Split(ns.tags, ",")) }

\* {p for p in (p.strip() for p in args.skip_subprojects.split(",")) if p}
skip_subprojects(ns) ==
    { strip(p) : p \in Range(Split(ns.skip_subprojects, ",")) } \ {<<>>}

\* details.get("subproject")
get_subproject(details) ==
    IF "subproject" \in DOMAIN details THEN details.subproject ELSE NoText

MissingTag == [type |-> "KeyError", key |-> "tag"]

\* The filter that applies --skip-subprojects to the main project too.
filter_keeps_any_subproject(details, ns) ==
    /\ tags_given(ns) => details.tag \in install_tags(ns)
    /\ ~(get_subproject(details) \in skip_subprojects(ns)
         \/ V_star \in skip_subprojects(ns))

\* The two tests of the filter loop: the record is not passed over.
filter_keeps(details, ns) ==
    /\ tags_given(ns) => details.tag \in install_tags(ns)
    /\ ~(/\ get_subproject(details) # NoText
         /\ (get_subproject(details) \in skip_subprojects(ns)
             \/ V_star \in skip_subprojects(ns)))

\* for key, targets in install_plan.items(): for target, details in ...
\* from record i on, kept being sources so far.
RECURSIVE filter_loop(_, _, _, _)
filter_loop(recs, i, ns, kept) ==
    IF i > Len(recs) THEN [raised |-> FALSE, value |-> kept]
    ELSE IF tags_given(ns) /\ "tag" \notin DOMAIN recs[i].target
    THEN [raised |-> TRUE, error |-> MissingTag]
    ELSE filter_loop(recs, i + 1, ns,
                     IF filter_keeps(recs[i].target, ns)
                     THEN Append(kept, recs[i]) ELSE kept)

\* Reading the plan with every record mapped first and the filter applied to
\* the records afterwards.
get_meson_install_plan_map_first(plan, install_args, scan) ==
    LET p == parse_known_args(install_args, 1, DefaultNamespace)
    IN IF p.raised THEN [raised |-> TRUE, error |-> p.error, mapped |-> FALSE]
       ELSE LET f == filter_loop(plan, 1, p.value, <<>>)
                all == _map_to_wheel(plan, scan)
            IN IF f.raised
               THEN [raised |-> TRUE, error |-> f.error, mapped |-> FALSE]
               ELSE IF all.raised
               THEN all @@ [mapped |-> TRUE, sources |-> f.value]
               ELSE _map_to_wheel(f.value, scan)
                        @@ [mapped |-> TRUE, sources |-> f.value]

\* _get_meson_install_plan: plan is the content of intro-install_plan.json,
\* install_args is self._hook_config.args.install. The outcome carries the
\* sources handed to _map_to_wheel.
_get_meson_install_plan(plan, install_args, scan) ==
    LET p == parse_known_args(install_args, 1, DefaultNamespace)
    IN IF p.raised THEN [raised |-> TRUE, error |-> p.error, mapped |-> FALSE]
       ELSE LET f == filter_loop(plan, 1, p.value, <<>>)
            IN IF f.raised
               THEN [raised |-> TRUE, error |-> f.error, mapped |-> FALSE]
               ELSE _map_to_wheel(f.value, scan)
                        @@ [mapped |-> TRUE, sources |-> f.value]

\* ------------------------------------------------------------ native files
\* f.read(n)
read(content, n) == SubSeq(content, 1, IF Len(content) < n THEN Len(content) ELSE n)

MachOMagics ==
    { <<254, 237, 250, 206>>,   \* 32-bit
      <<254, 237, 250, 207>>,   \* 64-bit
      <<207, 250, 237, 254>>,   \* arm64
      <<202, 254, 186, 190>> }  \* universal / fat

\* _is_native that looks for ELF on every host.
is_native_elf_only(fname, host) ==
    read(FileContent[fname], 4) = <<127, 69, 76, 70>>

\* _is_native of a regular file, on host platform host.
_is_native(fname, host) ==
    LET f == FileContent[fname]
    IN IF host = "darwin" THEN read(f, 4) \in MachOMagics
       ELSE IF host = "win32" \/ host = "cygwin" THEN read(f, 2) = <<77, 90>>
       ELSE read(f, 4) = <<127, 69, 76, 70>>

\* _install_is_pure that takes every script for native code.
install_is_pure_any_script(plan, host) ==
    IF DDGet(plan, "platlib") # <<>> THEN FALSE
    ELSE DDGet(plan, "scripts") = <<>>

_install_is_pure(plan, host) ==
    IF DDGet(plan, "platlib") # <<>> THEN FALSE
    ELSE \A i \in 1..Len(DDGet(plan, "scripts")) :
             ~_is_native(DDGet(plan, "scripts")[i][2], host)

\* -------------------------------------------------------------- stable ABI
ExtensionSuffixes == { so, <<"p", "y", "d">>, <<"d", "l", "l">> }

\* A pattern that takes everything between the first and the last segment
\* as the ABI tag: ^[^.]+\.(?:(?P<abi>.+)\.)?(?:so|pyd|dll)$
extension_suffix_any_dots(name) ==
    LET segs == Split(name, ".")
        n == Len(segs)
    IN IF n = 2 /\ segs[1] # <<>> /\ segs[2] \in ExtensionSuffixes
           THEN [matched |-> TRUE, abi |-> NoText]
       ELSE IF n >= 3 /\ segs[1] # <<>> /\ segs[n] \in ExtensionSuffixes
           THEN [matched |-> TRUE,
                 abi |-> SubSeq(name, Len(segs[1]) + 2, Len(name) - Len(segs[n]) - 1)]
       ELSE [matched |-> FALSE, abi |-> NoText]

\* _EXTENSION_SUFFIX_REGEX.match(name):
\*   ^[^.]+\.(?:(?P<abi>[^.]+)\.)?(?:so|pyd|dll)$
\* on the dot-separated segments of name.
_EXTENSION_SUFFIX_REGEX(name) ==
    LET segs == Split(name, ".")
    IN IF Len(segs) = 2 /\ segs[1] # <<>> /\ segs[2] \in ExtensionSuffixes
           THEN [matched |-> TRUE, abi |-> NoText]
       ELSE IF /\ Len(segs) = 3 /\ segs[1] # <<>> /\ segs[2] # <<>>
               /\ segs[3] \in ExtensionSuffixes
           THEN [matched |-> TRUE, abi |-> segs[2]]
       ELSE [matched |-> FALSE, abi |-> NoText]

\* The test of line 217 without the comparison with "abi3".
abi_is_version_specific_any(abi) == abi # NoText

\* abi is not None and abi != "abi3"
abi_is_version_specific(abi) == abi # NoText /\ abi # abi3

StableAbiError(path) ==
    [type |-> "BuildError",
     text |-> "The package declares compatibility with Python limited API but extension module is tagged for a specific Python version.",
     path |-> path]

\* The audit that returns after the first platlib entry.
stable_abi_loop_first_only(platlib, i) ==
    IF i > Len(platlib) THEN [raised |-> FALSE, value |-> "abi3"]
    ELSE LET m == _EXTENSION_SUFFIX_REGEX(PathName(platlib[i][1]))
         IN IF m.matched /\ abi_is_version_specific(m.abi)
            THEN [raised |-> TRUE, error |-> StableAbiError(platlib[i][1])]
            ELSE [raised |-> FALSE, value |-> "abi3"]

\* for path, _ in install_plan["platlib"]: ... from entry i on.
RECURSIVE stable_abi_loop(_, _)
stable_abi_loop(platlib, i) ==
    IF i > Len(platlib) THEN [raised |-> FALSE, value |-> "abi3"]
    ELSE LET m == _EXTENSION_SUFFIX_REGEX(PathName(platlib[i][1]))
         IN IF m.matched /\ abi_is_version_specific(m.abi)
            THEN [raised |-> TRUE, error |-> StableAbiError(platlib[i][1])]
            ELSE stable_abi_loop(platlib, i + 1)

\* _compute_stable_abi without the PyPy exception.
compute_stable_abi_no_pypy(plan, limited, is_pypy) ==
    IF limited
    THEN stable_abi_loop(DDGet(plan, "platlib"), 1)
    ELSE [raised |-> FALSE, value |-> None]

_compute_stable_abi(plan, limited, is_pypy) ==
    IF limited /\ ~is_pypy
    THEN stable_abi_loop(DDGet(plan, "platlib"), 1)
    ELSE [raised |-> FALSE, value |-> None]

\* -------------------------------------------------------------------- tags
\* hatch_meson._tags: the tags of the running interpreter and host.
get_interpreter_tag(is_pypy) == IF is_pypy THEN "pp310" ELSE "cp312"

get_abi_tag(is_pypy) == IF is_pypy THEN "pypy310_pp73" ELSE "cp312"

get_platform_tag(host) ==
    CASE host = "linux" -> "linux_x86_64"
      [] host = "darwin" -> "macosx_11_0_arm64"
      [] host = "win32" -> "win_amd64"
      [] host = "cygwin" -> "cygwin_x86_64"

\* _tags.Tag(interpreter, abi, platform): a None field takes the runtime's value.
Tag(interpreter, abi, plat, host, is_pypy) ==
    [interpreter |-> IF interpreter = None THEN get_interpreter_tag(is_pypy)
                     ELSE interpreter,
     abi |-> IF abi = None THEN get_abi_tag(is_pypy) ELSE abi,
     platform |-> IF plat = None THEN get_platform_tag(host) ELSE plat]

\* str(tag): the three fields joined by dashes.
TagStr(t) == <<t.interpreter, "-", t.abi, "-", t.platform>>

\* _compute_tag without the branch for a wheel that has no platlib.
compute_tag_no_generic(plan, limited, host, is_pypy) ==
    IF _install_is_pure(plan, host)
    THEN [raised |-> FALSE, value |-> Tag("py3", "none", "any", host, is_pypy)]
    ELSE LET a == _compute_stable_abi(plan, limited, is_pypy)
         IN IF a.raised THEN a
            ELSE [raised |-> FALSE,
                  value |-> Tag(None, a.value, None, host, is_pypy)]

_compute_tag(plan, limited, host, is_pypy) ==
    IF _install_is_pure(plan, host)
    THEN [raised |-> FALSE, value |-> Tag("py3", "none", "any", host, is_pypy)]
    ELSE IF DDGet(plan, "platlib") = <<>>
    THEN [raised |-> FALSE, value |-> Tag("py3", "none", None, host, is_pypy)]
    ELSE LET a == _compute_stable_abi(plan, limited, is_pypy)
         IN IF a.raised THEN a
            ELSE [raised |-> FALSE,
                  value |-> Tag(None, a.value, None, host, is_pypy)]

\* ------------------------------------------------------------ meson and ninja
\* Version texts, as "--version" prints them.
V_1_8_1 == <<"1", ".", "8", ".", "1", "\n">>
V_1_8_2 == <<"1", ".", "8", ".", "2", "\n">>
V_1_8_3 == <<"1", ".", "8", ".", "3", "\n">>
V_1_10_0 == <<"1", ".", "1", "0", ".", "0", "\n">>
V_1_8 == <<"1", ".", "8", "\n">>
V_1_9 == <<"1", ".", "9">>
V_2 == <<"2">>
V_1_8_2_git == <<"1", ".", "8", ".", "2", ".", "g", "i", "t", ".", "k", "i", "t", "w", "a", "r", "e", "\n">>
V_1_8_2_rc == <<"1", ".", "8", ".", "2", "-", "r", "c", "\n">>
V_1_x_0 == <<"1", ".", "x", ".", "0", "\n">>
V_0_63_3 == <<"0", ".", "6", "3", ".", "3", "\n">>
V_0_64_0 == <<"0", ".", "6", "4", ".", "0", "\n">>
V_1_5_1 == <<"1", ".", "5", ".", "1", "\n">>
V_0_0_1 == <<"0", ".", "0", ".", "1", "\n">>
V_empty == <<>>

_NINJA_REQUIRED_VERSION == <<"1", ".", "8", ".", "2">>
_MESON_REQUIRED_VERSION == <<"0", ".", "6", "4", ".", "0">>

Digits == {"0", "1", "2", "3", "4", "5", "6", "7", "8", "9"}

DigitValue(c) ==
    CASE c = "0" -> 0 [] c = "1" -> 1 [] c = "2" -> 2 [] c = "3" -> 3
      [] c = "4" -> 4 [] c = "5" -> 5 [] c = "6" -> 6 [] c = "7" -> 7
      [] c = "8" -> 8 [] c = "9" -> 9

RECURSIVE DecimalValue(_)
DecimalValue(ds) ==
    IF ds = <<>> THEN 0
    ELSE 10 * DecimalValue(SubSeq(ds, 1, Len(ds) - 1)) + DigitValue(ds[Len(ds)])

\* int(text): surrounding white space is ignored; anything but a run of
\* digits raises ValueError (signs and underscores do not occur).
int(text) ==
    LET t == strip(text)
    IN IF t # <<>> /\ \A i \in 1..Len(t) : t[i] \in Digits
       THEN [raised |-> FALSE, value |-> DecimalValue(t)]
       ELSE [raised |-> TRUE]

\* tuple(map(int, string.split(".")[:3])), (0,) on ValueError
_parse_version_string(string) ==
    LET segs == Split(string, ".")
        first == SubSeq(segs, 1, IF Len(segs) < 3 THEN Len(segs) ELSE 3)
    IN IF \E i \in 1..Len(first) : int(first[i]).raised THEN <<0>>
       ELSE [i \in 1..Len(first) |-> int(first[i]).value]

\* a < b on tuples of integers
RECURSIVE TupleLess(_, _)
TupleLess(a, b) ==
    IF a = <<>> THEN b # <<>>
    ELSE IF b = <<>> THEN FALSE
    ELSE IF Head(a) = Head(b) THEN TupleLess(Tail(a), Tail(b))
    ELSE Head(a) < Head(b)

\* os.environ.get(name): NoText when the variable is not set.
getenv(env, name) == IF name \in DOMAIN env THEN env[name] ELSE NoText

\* The call that replaces a value already set: os.environ[name] = value
setdefault_overwrite(env, name, value) ==
    IF name \in DOMAIN env THEN [env EXCEPT ![name] = value] ELSE env @@ (name :> value)

\* os.environ.setdefault(name, value)
setdefault(env, name, value) == IF name \in DOMAIN env THEN env ELSE env @@ (name :> value)

N_ninja == <<"n", "i", "n", "j", "a">>
N_ninja_build == <<"n", "i", "n", "j", "a", "-", "b", "u", "i", "l", "d">>
N_samu == <<"s", "a", "m", "u">>
N_meson == <<"m", "e", "s", "o", "n">>
N_bad == <<"b", "a", "d">>
N_meson_py == <<"m", "e", "s", "o", "n", ".", "p", "y">>
N_opt_ninja == <<"/", "o", "p", "t", "/", "n", "i", "n", "j", "a">>
DotPy == <<".", "p", "y">>

\* shutil.which(name): the path of the program, NoText when there is none.
which(sys, name) ==
    LET found == { k \in DOMAIN sys.path : k = name \/ sys.path[k].path = name }
    IN IF found # {} THEN sys.path[CHOOSE k \in found : TRUE].path ELSE NoText

\* subprocess.run([ninja_path, "--version"], ...).stdout
ninja_version(sys, ninja_path) ==
    sys.path[CHOOSE k \in DOMAIN sys.path : sys.path[k].path = ninja_path].stdout

\* The search that takes the first ninja found, whatever its version.
RECURSIVE ninja_search_any_version(_, _, _)
ninja_search_any_version(sys, candidates, i) ==
    IF i > Len(candidates) THEN NoText
    ELSE IF which(sys, candidates[i]) # NoText
    THEN which(sys, candidates[i])
    ELSE ninja_search_any_version(sys, candidates, i + 1)

\* for ninja in ninja_candidates: ... from candidate i on
RECURSIVE ninja_search(_, _, _)
ninja_search(sys, candidates, i) ==
    IF i > Len(candidates) THEN NoText
    ELSE IF /\ which(sys, candidates[i]) # NoText
            /\ ~TupleLess(_parse_version_string(ninja_version(sys, which(sys, candidates[i]))),
                          _parse_version_string(_NINJA_REQUIRED_VERSION))
    THEN which(sys, candidates[i])
    ELSE ninja_search(sys, candidates, i + 1)

\* _env_ninja_command(): the path to ninja, NoText (None) if no ninja found.
_env_ninja_command(env, sys) ==
    LET env_ninja == getenv(env, "NINJA")
        ninja_candidates == IF env_ninja # NoText /\ env_ninja # <<>>
                            THEN <<env_ninja>>
                            ELSE <<N_ninja, N_ninja_build, N_samu>>
    IN ninja_search(sys, ninja_candidates, 1)

NinjaRequirement == <<"ninja >= ", _NINJA_REQUIRED_VERSION>>

_get_requires_for_build_wheel(env, sys) ==
    IF getenv(env, "NINJA") = NoText /\ _env_ninja_command(env, sys) = NoText
    THEN <<NinjaRequirement>>
    ELSE <<>>

\* sys.executable, and the directory the process runs in
PyExe == <<"/", "u", "s", "r", "/", "b", "i", "n", "/", "p", "y", "t", "h", "o", "n", "3">>
Cwd == <<"/", "w">>

\* os.path.abspath
abspath(p) == IF p # <<>> /\ p[1] = "/" THEN p ELSE Cwd \o <<"/">> \o p

ConfigError(text, about) == [type |-> "ConfigError", text |-> text, about |-> about]

\* What subprocess.run raises for a file that is there but cannot be run;
\* only FileNotFoundError is caught.
PermissionError == [type |-> "PermissionError"]

\* _get_meson_command that does not look at the version.
get_meson_command_any_version(meson, env, sys) ==
    LET name == IF "MESON" \in DOMAIN env THEN env["MESON"]
                ELSE IF meson # NoText /\ meson # <<>> THEN meson ELSE N_meson
        cmd == IF EndsWith(name, DotPy) THEN <<PyExe, abspath(name)>> ELSE <<name>>
    IN IF name \notin DOMAIN sys.meson
       THEN [raised |-> TRUE, error |-> ConfigError("meson not found", name)]
       ELSE IF ~sys.meson[name].executable
       THEN [raised |-> TRUE, error |-> PermissionError]
       ELSE IF sys.meson[name].returncode # 0
       THEN [raised |-> TRUE, error |-> ConfigError("Could not execute meson", name)]
       ELSE [raised |-> FALSE, value |-> cmd]

\* _get_meson_command(meson): sys.meson holds, for every meson there is,
\* whether it can be executed and the exit status and the output of
\* "--version".
_get_meson_command(meson, env, sys) ==
    LET name == IF "MESON" \in DOMAIN env THEN env["MESON"]
                ELSE IF meson # NoText /\ meson # <<>> THEN meson ELSE N_meson
        cmd == IF EndsWith(name, DotPy) THEN <<PyExe, abspath(name)>> ELSE <<name>>
    IN IF EndsWith(name, DotPy) /\ name \notin DOMAIN sys.meson
       THEN [raised |-> TRUE,
             error |-> ConfigError("Could not find the specified meson", name)]
       ELSE IF name \notin DOMAIN sys.meson
       THEN [raised |-> TRUE,
             error |-> ConfigError("meson executable not found", name)]
       ELSE IF ~sys.meson[name].executable
       THEN [raised |-> TRUE, error |-> PermissionError]
       ELSE IF sys.meson[name].returncode # 0
       THEN [raised |-> TRUE, error |-> ConfigError("Could not execute meson", name)]
       ELSE IF TupleLess(_parse_version_string(strip(sys.meson[name].stdout)),
                         _parse_version_string(_MESON_REQUIRED_VERSION))
       THEN [raised |-> TRUE,
             error |-> ConfigError("Could not find meson version or newer", name)]
       ELSE [raised |-> FALSE, value |-> cmd]

\* ------------------------------------------------------------- macOS cross file
Arch_arm64 == <<"a", "r", "m", "6", "4">>
Arch_x86_64 == <<"x", "8", "6", "_", "6", "4">>
Opt_arch == <<"-", "a", "r", "c", "h">>
F_arm64 == Opt_arch \o <<" ">> \o Arch_arm64
F_x86_64 == Opt_arch \o <<" ">> \o Arch_x86_64
Arch_i386 == <<"i", "3", "8", "6">>
F_i386 == Opt_arch \o <<" ">> \o Arch_i386
F_x86_64_padded == <<" ">> \o F_x86_64 \o <<" ", " ">>
F_arm64_twice == F_arm64 \o <<" ">> \o F_arm64
F_arm64_x86_64 == F_arm64 \o <<" ">> \o F_x86_64
F_arm64_define == F_arm64 \o <<" ", "-", "D", "F", "O", "O", "=", "1">>
F_arch == Opt_arch
F_arm64_arch == F_arm64 \o <<" ">> \o Opt_arch
F_arch_eq_x86_64 == Opt_arch \o <<"=">> \o Arch_x86_64
F_positional == Arch_x86_64
F_blank == <<" ", " ">>
MacVer == <<"1", "1", ".", "0">>
P_macosx_arm64 == <<"m", "a", "c", "o", "s", "x", "-">> \o MacVer \o <<"-">> \o Arch_arm64
P_macosx_x86_64 == <<"m", "a", "c", "o", "s", "x", "-">> \o MacVer \o <<"-">> \o Arch_x86_64
P_linux == <<"l", "i", "n", "u", "x", "-", "x", "8", "6", "_", "6", "4">>

\* str.split(): the runs of characters between white space.
RECURSIVE SplitWs(_)
SplitWs(s) ==
    LET t == strip(s)
    IN IF t = <<>> THEN <<>>
       ELSE IF \A i \in 1..Len(t) : t[i] \notin Whitespace THEN <<t>>
       ELSE LET i == CHOOSE k \in 1..Len(t) :
                         t[k] \in Whitespace /\ \A j \in 1..(k - 1) : t[j] \notin Whitespace
            IN <<SubSeq(t, 1, i - 1)>> \o SplitWs(SubSeq(t, i + 1, Len(t)))

\* The parser of ARCHFLAGS: add_argument("-arch", action="append"), no
\* abbreviations. From argument i on; archs and unknown are what was
\* collected so far.
RECURSIVE parse_archflags(_, _, _, _)
parse_archflags(args, i, archs, unknown) ==
    IF i > Len(args) THEN [raised |-> FALSE, arch |-> archs, unknown |-> unknown]
    ELSE LET arg == args[i]
             eq == IndexOf(arg, "=")
         IN IF arg = Opt_arch
            THEN IF i < Len(args) /\ args[i + 1][1] # "-"
                 THEN parse_archflags(args, i + 2, Append(archs, args[i + 1]), unknown)
                 ELSE [raised |-> TRUE, error |-> ArgparseExit]
            ELSE IF eq # 0 /\ SubSeq(arg, 1, eq - 1) = Opt_arch
            THEN parse_archflags(args, i + 1,
                                 Append(archs, SubSeq(arg, eq + 1, Len(arg))), unknown)
            ELSE parse_archflags(args, i + 1, archs, Append(unknown, arg))

\* sysconfig.get_platform(): _PYTHON_HOST_PLATFORM when set, else the host's.
get_platform(env, sys, host) ==
    IF "_PYTHON_HOST_PLATFORM" \in DOMAIN env /\ host \notin {"win32"}
    THEN env["_PYTHON_HOST_PLATFORM"]
    ELSE CASE host = "darwin" -> <<"m", "a", "c", "o", "s", "x", "-">> \o MacVer \o <<"-">> \o sys.nativearch
           [] host = "win32" -> <<"w", "i", "n", "-", "a", "m", "d", "6", "4">>
           [] host = "cygwin" -> <<"c", "y", "g", "w", "i", "n", "-", "3", ".", "4", "-", "x", "8", "6", "_", "6", "4">>
           [] OTHER -> <<"l", "i", "n", "u", "x", "-", "x", "8", "6", "_", "6", "4">>

\* The file _create_macos_crossfile writes.
CrossFileData(arch) ==
    [c |-> <<"cc", "-arch", arch>>, cpp |-> <<"c++", "-arch", arch>>,
     system |-> "darwin", cpu |-> arch,
     cpu_family |-> IF arch = Arch_arm64 THEN <<"a", "a", "r", "c", "h", "6", "4">> ELSE arch,
     endian |-> "little"]

NoFile == [exists |-> FALSE]

\* _create_macos_crossfile(crossfile_path) on host, sys.nativearch being
\* the machine of platform.mac_ver(): whether it raised or what it
\* returned, os.environ afterwards, and the file written if any.
_create_macos_crossfile(env, sys, host) ==
    LET quiet == [raised |-> FALSE, value |-> FALSE, environ |-> env, file |-> NoFile]
        archflags == strip(IF "ARCHFLAGS" \in DOMAIN env THEN env["ARCHFLAGS"] ELSE <<>>)
        args == parse_archflags(SplitWs(archflags), 1, <<>>, <<>>)
    IN IF ~StartsWith(get_platform(env, sys, host), <<"m", "a", "c", "o", "s", "x", "-">>) \/ archflags = <<>>
       THEN quiet
       ELSE IF args.raised
       THEN [raised |-> TRUE, error |-> args.error, environ |-> env, file |-> NoFile]
       ELSE IF args.unknown # <<>>
       THEN [raised |-> TRUE, environ |-> env, file |-> NoFile,
             error |-> ConfigError("Unknown flag specified in $ARCHFLAGS", archflags)]
       ELSE IF Cardinality(Range(args.arch)) > 1
       THEN [raised |-> TRUE, environ |-> env, file |-> NoFile,
             error |-> ConfigError("Multi-architecture builds are not supported", archflags)]
       ELSE LET arch == args.arch[1]
                env1 == setdefault(env, "_PYTHON_HOST_PLATFORM",
                                   <<"m", "a", "c", "o", "s", "x", "-">> \o MacVer \o <<"-">> \o arch)
            IN IF arch = sys.nativearch THEN quiet
               ELSE IF ~EndsWith(env1["_PYTHON_HOST_PLATFORM"], arch)
               THEN [raised |-> TRUE, environ |-> env1, file |-> NoFile,
                     error |-> ConfigError("$ARCHFLAGS and $_PYTHON_HOST_PLATFORM do not agree",
                                           archflags)]
               ELSE [raised |-> FALSE, value |-> TRUE, environ |-> env1,
                     file |-> [exists |-> TRUE, data |-> CrossFileData(arch)]]

\* --------------------------------------------------- MesonBuildHook.initialize
\* self._source_dir: paths are written relative to the project root.
SourceDir == <<>>

\* d[k] = v on a dict
DictSet(d, k, v) == IF k \in DOMAIN d THEN [d EXCEPT ![k] = v] ELSE d @@ (k :> v)

\* Reading a missing key of a defaultdict inserts it.
DDTouch(d, k) == IF k \in DOMAIN d THEN d ELSE d @@ (k :> <<>>)

\* for dst, src in entries: d[src] = dst.as_posix()
RECURSIVE register_all(_, _, _)
register_all(d, entries, i) ==
    IF i > Len(entries) THEN d
    ELSE register_all(DictSet(d, entries[i][2], entries[i][1]), entries, i + 1)

MixedLayoutError ==
    [type |-> "BuildError",
     text |-> "The install plan contains both purelib and platlib components, a 'pure: false' argument may be missing in meson.build."]

\* The hook without the purelib/platlib check.
mixed_layout_never(plan) == FALSE

\* install_plan["purelib"] and install_plan["platlib"]
mixed_layout(plan) == DDGet(plan, "purelib") # <<>> /\ DDGet(plan, "platlib") # <<>>

\* The loop that copies every file, onto itself too.
RECURSIVE copy_loop_always(_, _, _, _, _, _)
copy_loop_always(entries, i, pkgsrc, force_include, artifacts, copies) ==
    IF i > Len(entries)
    THEN [force_include |-> force_include, artifacts |-> artifacts, copied |-> copies]
    ELSE LET dstrel == entries[i][1]
             src == entries[i][2]
             dst == pkgsrc \o dstrel
         IN copy_loop_always(entries, i + 1, pkgsrc,
                             DictSet(force_include, dst, dstrel),
                             Append(artifacts, dst),
                             Append(copies, <<src, dst>>))

\* for dstrel, src in install_plan["purelib"] + install_plan["platlib"]: ...
RECURSIVE copy_loop(_, _, _, _, _, _)
copy_loop(entries, i, pkgsrc, force_include, artifacts, copies) ==
    IF i > Len(entries)
    THEN [force_include |-> force_include, artifacts |-> artifacts, copied |-> copies]
    ELSE LET dstrel == entries[i][1]
             src == entries[i][2]
             dst == pkgsrc \o dstrel
         IN copy_loop(entries, i + 1, pkgsrc,
                      DictSet(force_include, dst, dstrel),
                      Append(artifacts, dst),
                      IF dst = src THEN copies ELSE Append(copies, <<src, dst>>))

\* initialize from the reading of the install plan on: the outcome for the
\* records recs of intro-install_plan.json and the install arguments
\* install_args, build_data being bd when the hook is entered.
initialize_tail(bd, recs, install_args, scan, package_sources, limited, host, is_pypy) ==
    LET m == _get_meson_install_plan(recs, install_args, scan)
    IN IF m.raised
       THEN [build_data |-> bd, copied |-> <<>>, error |-> m.error,
             install_plan |-> EmptyDict, mapped |-> m.mapped]
       ELSE
       LET plan == m.value
           bd1 == [bd EXCEPT !.shared_scripts =
                       register_all(@, DDGet(plan, "scripts"), 1)]
           bd2 == [bd1 EXCEPT !.shared_data =
                       register_all(@, DDGet(plan, "datadir"), 1)]
           pkgsrc == IF package_sources # <<>>
                     THEN SourceDir \o package_sources[1] ELSE SourceDir
           plan1 == DDTouch(DDTouch(DDTouch(plan, "scripts"), "datadir"), "purelib")
           plan2 == DDTouch(plan1, "platlib")
       IN IF mixed_layout(plan)
          THEN [build_data |-> bd2, copied |-> <<>>, error |-> MixedLayoutError,
                install_plan |-> plan2, mapped |-> TRUE]
          ELSE
          LET c == copy_loop(DDGet(plan, "purelib") \o DDGet(plan, "platlib"), 1,
                             pkgsrc, bd2.force_include, <<>>, <<>>)
              bd3 == [bd2 EXCEPT !.force_include = c.force_include]
              t == _compute_tag(plan, limited, host, is_pypy)
          IN IF t.raised
             THEN [build_data |-> bd3, copied |-> c.copied, error |-> t.error,
                   install_plan |-> plan2, mapped |-> TRUE]
             ELSE [build_data |->
                       [bd3 EXCEPT !.pure_python =
                                       IF _install_is_pure(plan, host) THEN @ ELSE FALSE,
                                   !.tag = TagStr(t.value),
                                   !.artifacts = @ \o c.artifacts],
                   copied |-> c.copied, error |-> NoError, install_plan |-> plan2,
                   mapped |-> TRUE]

\* ------------------------------------- MesonBuildHook.initialize: the build
\* _aslist: None, a str or a list of str, as config settings give them
NoArgs == [kind |-> "none"]
StrArg(text) == [kind |-> "str", value |-> text]
ListArg(texts) == [kind |-> "list", value |-> texts]

_aslist(s) ==
    CASE s.kind = "none" -> <<>>
      [] s.kind = "str" -> <<s.value>>
      [] s.kind = "list" -> s.value

\* os.fspath of the source directory and of the default build directory,
\* whose last component is the ABI tag.
SourceDirText == <<"/", "s", "r", "c">>
DefaultBuildDir(is_pypy) == SourceDirText \o <<"/", "b", "u", "i", "l", "d", "/">> \o <<get_abi_tag(is_pypy)>>

NativeFileName == <<"/", "h", "a", "t", "c", "h", "-", "m", "e", "s", "o", "n", "-", "n", "a", "t", "i", "v", "e", "-", "f", "i", "l", "e", ".", "i", "n", "i">>
CrossFileName == <<"/", "h", "a", "t", "c", "h", "-", "m", "e", "s", "o", "n", "-", "c", "r", "o", "s", "s", "-", "f", "i", "l", "e", ".", "i", "n", "i">>

D_buildtype_release == <<"-", "D", "b", "u", "i", "l", "d", "t", "y", "p", "e", "=", "r", "e", "l", "e", "a", "s", "e">>
D_b_ndebug_if_release == <<"-", "D", "b", "_", "n", "d", "e", "b", "u", "g", "=", "i", "f", "-", "r", "e", "l", "e", "a", "s", "e">>
D_b_vscrt_md == <<"-", "D", "b", "_", "v", "s", "c", "r", "t", "=", "m", "d">>
Opt_reconfigure == <<"-", "-", "r", "e", "c", "o", "n", "f", "i", "g", "u", "r", "e">>
Opt_cross_file == <<"-", "-", "c", "r", "o", "s", "s", "-", "f", "i", "l", "e">>
Opt_native_file_eq == <<"-", "-", "n", "a", "t", "i", "v", "e", "-", "f", "i", "l", "e", "=">>
W_setup == <<"s", "e", "t", "u", "p">>
W_compile == <<"c", "o", "m", "p", "i", "l", "e">>

\* _run_configure that puts the user's options before the defaults.
setup_command_user_first(meson, source_dir, build_dir, setup, reconfigure) ==
    meson \o <<W_setup>>
          \o (IF reconfigure THEN <<Opt_reconfigure>> ELSE <<>>)
          \o <<source_dir, build_dir>>
          \o setup
          \o <<D_buildtype_release, D_b_ndebug_if_release, D_b_vscrt_md>>
          \o <<Opt_native_file_eq \o build_dir \o NativeFileName>>

\* The command of _run_configure: self._meson + ["setup", *setup_args]
setup_command(meson, source_dir, build_dir, setup, reconfigure) ==
    meson \o <<W_setup>>
          \o (IF reconfigure THEN <<Opt_reconfigure>> ELSE <<>>)
          \o <<source_dir, build_dir>>
          \o <<D_buildtype_release, D_b_ndebug_if_release, D_b_vscrt_md>>
          \o setup
          \o <<Opt_native_file_eq \o build_dir \o NativeFileName>>

\* f"--ninja-args={args!r}": the option and the list it spells
NinjaArgs(args) == [option |-> "--ninja-args", list |-> args]

\* _build_command
_build_command(meson, ninja, compile, host) ==
    IF host = "win32"
    THEN meson \o <<W_compile>> \o (IF compile # <<>> THEN <<NinjaArgs(compile)>> ELSE <<>>)
    ELSE <<ninja>> \o compile

\* r = subprocess.run(cmd, cwd=self._build_dir)
RunEvent(cmd, returncode) == [ev |-> "run", cmd |-> cmd, returncode |-> returncode]
InfoEvent(name) == [ev |-> "info", name |-> name]
MapEvent == [ev |-> "map"]

\* An exit that reports a failure without its status.
SystemExitOne(code) == [type |-> "SystemExit", code |-> 1]

\* raise SystemExit(r.returncode)
SystemExit(code) == [type |-> "SystemExit", code |-> code]

NoNinjaError == ConfigError("Could not find ninja version or newer.", _NINJA_REQUIRED_VERSION)

FreeThreadedError ==
    [type |-> "BuildError",
     text |-> "The package targets Python's Limited API, which is not supported by free-threaded CPython."]

\* next((option["value"] for option in options if option["name"] == name), None)
RECURSIVE option_value(_, _, _)
option_value(options, name, i) ==
    IF i > Len(options) THEN [found |-> FALSE]
    ELSE IF options[i].name = name THEN [found |-> TRUE, value |-> options[i].value]
    ELSE option_value(options, name, i + 1)

\* The limited-API setting that trusts the configuration alone.
limited_api_setting_config_only(cfg_limited_api, options) == cfg_limited_api

\* self._limited_api after lines 335-348
limited_api_setting(cfg_limited_api, options) ==
    IF cfg_limited_api
    THEN LET value == option_value(options, "python.allow_limited_api", 1)
         IN value.found /\ value.value = TRUE
    ELSE FALSE

\* A build that runs the command at every call.
run_build_uncached(h, cmd, rc) ==
    IF rc # 0
    THEN [raised |-> TRUE, error |-> SystemExit(rc), hook |-> h,
          events |-> <<RunEvent(cmd, rc)>>]
    ELSE [raised |-> FALSE, hook |-> [h EXCEPT !.run_build_cache = TRUE],
          events |-> <<RunEvent(cmd, rc)>>]

\* self._run_build(), an lru_cache on the instance: the command runs unless
\* an earlier call on this instance returned.
_run_build(h, cmd, rc) ==
    IF h.run_build_cache
    THEN [raised |-> FALSE, hook |-> h, events |-> <<>>]
    ELSE IF rc # 0
    THEN [raised |-> TRUE, error |-> SystemExit(rc), hook |-> h,
          events |-> <<RunEvent(cmd, rc)>>]
    ELSE [raised |-> FALSE, hook |-> [h EXCEPT !.run_build_cache = TRUE],
          events |-> <<RunEvent(cmd, rc)>>]

\* self._info(name), an lru_cache on the instance: the file is read unless
\* an earlier call on this instance read it.
_info(h, name) ==
    [hook |-> [h EXCEPT !.info_cache = @ \cup {name}],
     events |-> IF name \in h.info_cache THEN <<>> ELSE <<InfoEvent(name)>>]

\* A reconfigure whenever the build directory exists.
reconfigure_if_build_dir(dsk) == dsk.build_dir

\* (self._build_dir / "meson-private" / "coredata.dat").is_file()
reconfigure_wanted(dsk) == dsk.build_dir /\ dsk.coredata

\* What initialize leaves behind when it stops at an exception.
Stopped(error, events, env, dsk, h) ==
    [error |-> error, events |-> events, environ |-> env, disk |-> dsk,
     hook |-> h, limited_api |-> FALSE, built |-> FALSE]

\* The [tool.hatch.build] table: the "exclude" list of the wheel target and
\* the one of the table itself, each there or not.
NoList == [has |-> FALSE, list |-> <<>>]
ListOf(texts) == [has |-> TRUE, list |-> texts]
NoExcludes == [wheel |-> NoList, top |-> NoList]

N_meson_build == <<"m", "e", "s", "o", "n", ".", "b", "u", "i", "l", "d">>

\* _setup_excludes without a wheel target's own list.
setup_excludes_top_only(h, cfg) ==
    LET bc == IF h.build_config.loaded THEN h.build_config
              ELSE [loaded |-> TRUE] @@ cfg.build_config
    IN [h EXCEPT !.build_config =
            IF bc.top.has
            THEN [bc EXCEPT !.top.list = @ \o <<N_meson_build>>]
            ELSE [bc EXCEPT !.top = ListOf(<<N_meson_build>>)]]

\* self._setup_excludes(): "meson.build" joins the exclude list of the wheel
\* target, else the one of the build table, else a new one there;
\* self.build_config.build_config is read from the project once.
_setup_excludes(h, cfg) ==
    LET bc == IF h.build_config.loaded THEN h.build_config
              ELSE [loaded |-> TRUE] @@ cfg.build_config
    IN [h EXCEPT !.build_config =
            IF bc.wheel.has
            THEN [bc EXCEPT !.wheel.list = @ \o <<N_meson_build>>]
            ELSE IF bc.top.has
            THEN [bc EXCEPT !.top.list = @ \o <<N_meson_build>>]
            ELSE [bc EXCEPT !.top = ListOf(<<N_meson_build>>)]]

\* initialize up to the build (lines 264-357) on instance h: the exception
\* raised if any, the commands run and files read, os.environ, the build
\* directory and the instance afterwards, and self._limited_api.
\* setup_rc and compile_rc are the exit statuses of the two commands.
initialize_head(h, cfg, settings, env, sys, dsk, host, is_pypy, setup_rc, compile_rc) ==
    LET args == [setup |-> cfg.args.setup \o _aslist(settings.setup_args),
                 compile |-> cfg.args.compile \o _aslist(settings.compile_args),
                 install |-> cfg.args.install \o _aslist(settings.install_args)]
        build_dir == IF settings.build_dir # NoText THEN settings.build_dir
                     ELSE DefaultBuildDir(is_pypy)
        meson == _get_meson_command(cfg.meson, env, sys)
        ninja == _env_ninja_command(env, sys)
        h1 == [_setup_excludes(h, cfg) EXCEPT !.args = args]
    IN IF meson.raised THEN Stopped(meson.error, <<>>, env, dsk, h1)
       ELSE IF ninja = NoText
       THEN Stopped(NoNinjaError, <<>>, env, dsk, [h1 EXCEPT !.meson = meson.value])
       ELSE
       LET h2 == [h1 EXCEPT !.meson = meson.value, !.ninja = ninja]
           env1 == setdefault(env, "NINJA", ninja)
           dsk1 == [dsk EXCEPT !.build_dir = TRUE]
           cross == _create_macos_crossfile(env1, sys, host)
       IN IF cross.raised THEN Stopped(cross.error, <<>>, cross.environ, dsk1, h2)
          ELSE
          LET setup == IF cross.value
                       THEN args.setup \o <<Opt_cross_file, build_dir \o CrossFileName>>
                       ELSE args.setup
              h3 == [h2 EXCEPT !.args.setup = setup]
              dsk2 == [dsk1 EXCEPT !.native_file = TRUE,
                                   !.cross_file = IF cross.value THEN cross.file ELSE @]
              reconfigure == reconfigure_wanted(dsk2)
              configure == RunEvent(setup_command(meson.value, SourceDirText, build_dir,
                                                  setup, reconfigure), setup_rc)
          IN IF setup_rc # 0
             THEN Stopped(SystemExit(setup_rc), <<configure>>, cross.environ, dsk2, h3)
             ELSE
             LET dsk3 == [dsk2 EXCEPT !.coredata = TRUE]
                 options == IF cfg.limited_api THEN _info(h3, "intro-buildoptions")
                            ELSE [hook |-> h3, events |-> <<>>]
                 limited == limited_api_setting(cfg.limited_api, sys.buildoptions)
                 h4 == options.hook
                 before_build == <<configure>> \o options.events
             IN IF limited /\ sys.gil_disabled
                THEN Stopped(FreeThreadedError, before_build, cross.environ, dsk3, h4)
                ELSE
                LET build == _run_build(h4, _build_command(meson.value, ninja,
                                                           args.compile, host),
                                        compile_rc)
                IN IF build.raised
                   THEN Stopped(build.error, before_build \o build.events,
                                cross.environ, dsk3, build.hook)
                   ELSE [error |-> NoError, events |-> before_build \o build.events,
                         environ |-> cross.environ, disk |-> dsk3,
                         hook |-> build.hook, limited_api |-> limited, built |-> TRUE]

\* ------------------------------------------------------------------ inputs
Hosts == {"linux", "darwin", "win32", "cygwin"}

\* self.build_config.sources
PackageSources == { <<>>, <<BuildRoot>> }

Rec(key, src, anchor, rest, exclude_files, exclude_dirs) ==
    [key |-> key, src |-> src,
     target |-> [destination |-> [anchor |-> anchor, rest |-> rest],
                 exclude_files |-> exclude_files,
                 exclude_dirs |-> exclude_dirs]]

T_c_e == <<"c", "/", "e">>
T_dot_c_d_py == <<".", "/", "c", "/">> \o N_d_py
T_c_d_py == <<"c", "/">> \o N_d_py
T_c_e_f_py == <<"c", "/", "e", "/">> \o N_f_py
T_g_slash == <<"g", "/">>

\* The records install plans are made of.
R_x_abi3 == Rec("targets", BuildRoot \o <<N_x_abi3_so>>, "{py_platlib}", <<N_pkg, N_x_abi3_so>>, {}, {})
R_y_cp3 == Rec("targets", BuildRoot \o <<N_y_cp3_so>>, "{py_platlib}", <<N_y_cp3_so>>, {}, {})
R_z == Rec("targets", BuildRoot \o <<N_z_so>>, "{moduledir_shared}", <<N_z_so>>, {}, {})
R_w == Rec("targets", BuildRoot \o <<N_w_cp3_x_so>>, "{py_platlib}", <<N_w_cp3_x_so>>, {}, {})
R_m_pure == Rec("python", BuildRoot \o <<N_m_py>>, "{py_purelib}", <<N_m_py>>, {}, {})
R_t == Rec("targets", BuildRoot \o <<N_t>>, "{bindir}", <<N_t>>, {}, {})
R_u == Rec("targets", BuildRoot \o <<N_u>>, "{bindir}", <<N_u>>, {}, {})
R_v == Rec("targets", BuildRoot \o <<N_v>>, "{bindir}", <<N_v>>, {}, {})
R_s == Rec("data", BuildRoot \o <<N_s>>, "{bindir}", <<N_s>>, {}, {})
R_m_data == Rec("data", BuildRoot \o <<N_m_py>>, "{datadir}", <<N_pkg, N_m_py>>, {}, {})
R_v_libdir == Rec("data", BuildRoot \o <<N_v>>, "{libdir}", <<N_v>>, {}, {})
R_t_include == Rec("targets", BuildRoot \o <<N_t>>, "{includedir}", <<N_pkg, N_t>>, {}, {})
R_pkg_pure1 == Rec("install_subdirs", PkgDir, "{py_purelib}", <<N_pkg>>, {N_b_py}, {T_c_e})
R_pkg_pure2 == Rec("install_subdirs", PkgDir, "{py_purelib}", <<N_pkg>>, {T_dot_c_d_py}, {T_g_slash})
R_pkg_plat == Rec("install_subdirs", PkgDir, "{py_platlib}", <<N_pkg>>, {}, {})
R_pkg_target == Rec("targets", PkgDir, "{datadir}", <<>>, {T_c_d_py, N_g}, {T_c_e_f_py, N_b_py})
R_pkg_data == Rec("data", PkgDir, "{datadir}", <<N_pkg>>, {}, {})
R_pkg_bin == Rec("install_subdirs", PkgDir, "{bindir}", <<>>, {N_B_py}, {N_c})
R_file_subdir == Rec("install_subdirs", BuildRoot \o <<N_m_py>>, "{py_purelib}", <<N_pkg>>, {}, {})

RecordPool ==
    { R_x_abi3, R_y_cp3, R_z, R_w, R_m_pure, R_t, R_u, R_v, R_s, R_m_data,
      R_v_libdir, R_t_include, R_pkg_pure1, R_pkg_pure2, R_pkg_plat,
      R_pkg_target, R_pkg_data, R_pkg_bin, R_file_subdir }

\* The records the install plan of a build is made of.
BuildPool ==
    { R_x_abi3, R_y_cp3, R_z, R_w, R_pkg_plat, R_m_pure, R_t, R_u, R_v, R_s,
      R_m_data, R_v_libdir }

\* A dict of dicts: no two records with the same key and source, the
\* records of one key next to each other.
DictShaped(s) ==
    \A i, j \in 1..Len(s) :
        i < j =>
            /\ ~(s[i].key = s[j].key /\ s[i].src = s[j].src)
            /\ (s[i].key = s[j].key => \A k \in i..j : s[k].key = s[i].key)

PlansOf(pool, max) ==
    { s \in UNION { [1..n -> pool] : n \in 0..max } : DictShaped(s) }

Plans == PlansOf(RecordPool, MaxRecords)

BuildPlans == PlansOf(BuildPool, MaxRecords)

InitialBuildData ==
    [shared_scripts |-> EmptyDict, shared_data |-> EmptyDict,
     force_include |-> EmptyDict, artifacts |-> <<>>,
     tag |-> NoText, pure_python |-> TRUE]

\* Install-plan records as Meson writes them, with their tag and subproject.
WithDetails(rec, more) == [rec EXCEPT !.target = more @@ @]

R_rt_main == WithDetails(R_m_pure, [tag |-> V_rt])
R_dev_main == WithDetails(R_t, [tag |-> V_dev, subproject |-> NoText])
R_rt_s1 == WithDetails(R_x_abi3, [tag |-> V_rt, subproject |-> V_s1])
R_dev_s2 == WithDetails(R_z, [tag |-> V_dev, subproject |-> V_s2])
R_null_s1 == WithDetails(R_m_data, [tag |-> NoText, subproject |-> V_s1])
R_rt_pkg == WithDetails(R_pkg_pure1, [tag |-> V_rt])
R_untagged == WithDetails(R_s, [subproject |-> V_s2])
R_no_destination ==
    [key |-> "data", src |-> BuildRoot \o <<N_u>>,
     target |-> [tag |-> V_rt, subproject |-> V_s1]]
R_dev_include == WithDetails(R_t_include, [tag |-> V_dev, subproject |-> V_s2])

FilterPool ==
    { R_rt_main, R_dev_main, R_rt_s1, R_dev_s2, R_null_s1, R_rt_pkg, R_untagged,
      R_no_destination, R_dev_include }

FilterPlans == PlansOf(FilterPool, MaxRecords)

\* Lists of install arguments.
InstallArgLists ==
    { <<>>,
      <<Opt_tags, V_rt>>,
      <<A_tags_eq_rt>>,
      <<Opt_tags, V_rt_dev>>,
      <<Opt_tags>>,
      <<A_tags_eq>>,
      <<A_tag_eq_dev>>,
      <<A_tags_eq_rt, Opt_tags, V_dev>>,
      <<Opt_skip_subprojects>>,
      <<Opt_skip_subprojects, V_s1>>,
      <<A_skip_eq_s1_s2>>,
      <<A_skip_eq_star>>,
      <<A_skip_eq_padded>>,
      <<Opt_skip_subprojects, Opt_tags, V_rt>>,
      <<Opt_tags, V_dev, Opt_skip_subprojects, V_s2>>,
      <<A_destdir, V_s1, Opt_tags, V_dev>>,
      <<A_dashdash, Opt_tags, V_rt>> }

\* Hosts _is_native is tried on.
ProbeHosts == Hosts \cup {"freebsd14", "sunos5"}

\* A program on the path and what its "--version" prints.
Program(name, stdout) ==
    [path |-> IF name[1] = "/" THEN name ELSE <<"/", "u", "s", "r", "/", "b", "i", "n", "/">> \o name, stdout |-> stdout]

NinjaVersions ==
    { V_1_8_1, V_1_8_2, V_1_8_3, V_1_10_0, V_1_8, V_1_9, V_2, V_1_8_2_git,
      V_1_8_2_rc, V_1_x_0, V_empty }

\* The programs on the path, some of them absent.
Installed(name, versions, absent) ==
    { name :> Program(name, v) : v \in versions } \cup (IF absent THEN {<<>>} ELSE {})

NinjaPaths ==
    { a @@ b @@ c @@ d :
        a \in Installed(N_ninja, NinjaVersions, TRUE),
        b \in Installed(N_ninja_build, {V_1_8_1, V_1_9}, TRUE),
        c \in Installed(N_samu, {V_1_8_3}, TRUE),
        d \in Installed(N_opt_ninja, {V_1_8_1, V_1_10_0}, TRUE) }

NinjaEnvirons == { <<>>, "NINJA" :> <<>>, "NINJA" :> N_opt_ninja, "NINJA" :> N_samu }

Meson(returncode, stdout) ==
    [executable |-> TRUE, returncode |-> returncode, stdout |-> stdout]

\* A file without the permission to execute.
NotExecutable == [executable |-> FALSE, returncode |-> 126, stdout |-> V_empty]

MesonPrograms ==
    { a @@ b :
        a \in { <<>> } \cup { N_meson :> m : m \in { Meson(0, V_1_5_1), Meson(0, V_0_64_0),
                                                    Meson(0, V_0_63_3), Meson(0, V_1_x_0),
                                                    Meson(1, V_empty), NotExecutable } },
        b \in { <<>> } \cup { N_meson_py :> m : m \in { Meson(0, V_1_5_1), Meson(0, V_0_0_1),
                                                       Meson(1, V_1_5_1) } } }

MesonEnvirons == { <<>>, "MESON" :> N_meson_py, "MESON" :> N_bad }

MesonSettings == { NoText, <<>>, N_meson, N_meson_py, N_bad }

ArchFlags ==
    { F_blank, F_arm64, F_x86_64, F_x86_64_padded, F_arm64_twice, F_arm64_x86_64,
      F_arm64_define, F_arch, F_arm64_arch, F_arch_eq_x86_64, F_positional, <<>> }

CrossEnvirons ==
    { a @@ b :
        a \in { <<>> } \cup { "ARCHFLAGS" :> f : f \in ArchFlags },
        b \in { <<>> } \cup { "_PYTHON_HOST_PLATFORM" :> p :
                                p \in { P_macosx_arm64, P_macosx_x86_64 } } }

\* intro-buildoptions.json
Option(name, value) == [name |-> name, value |-> value]
OptionsAllowed ==
    << Option("buildtype", "release"), Option("python.allow_limited_api", TRUE) >>
OptionsForbidden ==
    << Option("python.allow_limited_api", FALSE), Option("buildtype", "release") >>
OptionsAbsent == << Option("buildtype", "release") >>
BuildOptions == { OptionsAllowed, OptionsForbidden, OptionsAbsent }

\* User arguments.
U_buildtype_debug == <<"-", "D", "b", "u", "i", "l", "d", "t", "y", "p", "e", "=", "d", "e", "b", "u", "g">>
U_native_file == <<"-", "-", "n", "a", "t", "i", "v", "e", "-", "f", "i", "l", "e", "=", "u", "s", "e", "r", ".", "i", "n", "i">>
U_b_ndebug_true == <<"-", "D", "b", "_", "n", "d", "e", "b", "u", "g", "=", "t", "r", "u", "e">>
U_j1 == <<"-", "j", "1">>
U_verbose == <<"-", "v">>
U_build_dir == <<"/", "t", "m", "p", "/", "b">>

DefaultArgs == [setup |-> <<>>, compile |-> <<>>, install |-> <<>>]

BuildConfigs ==
    { NoExcludes,
      [wheel |-> ListOf(<<N_t>>), top |-> ListOf(<<N_u>>)],
      [wheel |-> NoList, top |-> ListOf(<<N_u>>)] }

\* HatchMesonConfig(), in a project without exclude lists
DefaultConfig ==
    [meson |-> NoText, limited_api |-> FALSE, args |-> DefaultArgs,
     build_config |-> NoExcludes]

\* CmdlineConfig()
DefaultSettings ==
    [build_dir |-> NoText, setup_args |-> NoArgs, compile_args |-> NoArgs,
     install_args |-> NoArgs]

ConfigArgs ==
    { DefaultArgs,
      [setup |-> <<U_buildtype_debug>>, compile |-> <<U_j1>>, install |-> <<Opt_tags, V_rt>>],
      [setup |-> <<U_native_file, U_b_ndebug_true>>, compile |-> <<>>,
       install |-> <<Opt_skip_subprojects>>] }

Settings ==
    { DefaultSettings,
      [build_dir |-> U_build_dir, setup_args |-> StrArg(U_buildtype_debug),
       compile_args |-> StrArg(U_verbose), install_args |-> StrArg(A_tags_eq_rt)],
      [build_dir |-> NoText, setup_args |-> ListArg(<<U_native_file, U_buildtype_debug>>),
       compile_args |-> ListArg(<<U_verbose, U_j1>>),
       install_args |-> ListArg(<<Opt_tags, V_dev>>)],
      [build_dir |-> NoText, setup_args |-> ListArg(<<>>), compile_args |-> NoArgs,
       install_args |-> ListArg(<<>>)] }

\* A machine with ninja and meson installed.
DefaultSystem ==
    [path |-> N_ninja :> Program(N_ninja, V_1_10_0),
     meson |-> N_meson :> Meson(0, V_1_5_1),
     nativearch |-> Arch_arm64,
     gil_disabled |-> FALSE,
     buildoptions |-> OptionsAllowed]

\* No build directory yet.
FreshDisk == [build_dir |-> FALSE, coredata |-> FALSE, native_file |-> FALSE,
              cross_file |-> NoFile]

\* A configured build directory left by an earlier process.
ConfiguredDisk == [build_dir |-> TRUE, coredata |-> TRUE, native_file |-> TRUE,
                   cross_file |-> NoFile]

\* A MesonBuildHook just constructed for the target.
NewHook(target_name) ==
    [target_name |-> target_name, args |-> DefaultArgs, meson |-> <<>>,
     ninja |-> NoText, run_build_cache |-> FALSE, info_cache |-> {},
     build_config |-> [loaded |-> FALSE]]

\* The exit statuses of meson and ninja.
ExitCodes == {0, 2}

StartEvent(coredata) == [ev |-> "initialize", coredata |-> coredata]

\* The state in which a default build on the given host finished building.
Built(host, is_pypy, limited) ==
    initialize_head(NewHook("wheel"), [DefaultConfig EXCEPT !.limited_api = limited],
                    DefaultSettings, <<>>, DefaultSystem, FreshDisk, host, is_pypy, 0, 0)

\* ----------------------------------------------------------- specification
\* Nothing called yet, the project configured and built by the default
\* build b; the hook instance is left open.
FreshState(b) ==
    /\ map_result = NoResult
    /\ prev_result = NoResult
    /\ tag_result = NoResult
    /\ install_plan = EmptyDict
    /\ build_data = InitialBuildData
    /\ copied = <<>>
    /\ hook_error = NoError
    /\ pc = "built"
    /\ config = [DefaultConfig EXCEPT !.limited_api = limited_api]
    /\ config_settings = DefaultSettings
    /\ system = DefaultSystem
    /\ environ = b.environ
    /\ disk = b.disk
    /\ log = <<StartEvent(FALSE)>> \o b.events
    /\ call = NoResult

FreshProcess == \E b \in {Built(platform, pypy, limited_api)} : FreshState(b)

\* The same, the hook being the one of the default build.
Fresh ==
    \E b \in {Built(platform, pypy, limited_api)} : FreshState(b) /\ hook = b.hook

\* A build: any install plan, host, interpreter and limited-API setting.
Init ==
    /\ sources \in BuildPlans
    /\ platform \in Hosts
    /\ pypy \in BOOLEAN
    /\ limited_api \in BOOLEAN
    /\ Fresh

\* The mapper alone: it reads neither the host nor the interpreter.
InitMap ==
    /\ sources \in Plans
    /\ platform = "linux"
    /\ pypy = FALSE
    /\ limited_api = FALSE
    /\ Fresh

\* The install plan Meson wrote and the install arguments of the hook.
InitFilter ==
    /\ sources \in FilterPlans
    /\ platform = "linux"
    /\ pypy = FALSE
    /\ limited_api = FALSE
    /\ FreshProcess
    /\ \E install \in InstallArgLists :
           hook = [Built("linux", FALSE, FALSE).hook EXCEPT !.args.install = install]

\* Any host.
InitNative ==
    /\ sources = <<>>
    /\ platform \in ProbeHosts
    /\ pypy = FALSE
    /\ limited_api = FALSE
    /\ Fresh

\* The state of a process that has built nothing yet.
Unbuilt ==
    /\ pypy = FALSE
    /\ limited_api = FALSE
    /\ map_result = NoResult
    /\ prev_result = NoResult
    /\ tag_result = NoResult
    /\ install_plan = EmptyDict
    /\ build_data = InitialBuildData
    /\ copied = <<>>
    /\ hook_error = NoError
    /\ pc = "start"
    /\ log = <<>>
    /\ call = NoResult

\* Any ninja on the path, NINJA set or not.
InitNinja ==
    /\ Unbuilt
    /\ sources = <<>>
    /\ platform = "linux"
    /\ environ \in NinjaEnvirons
    /\ \E p \in NinjaPaths : system = [DefaultSystem EXCEPT !.path = p]
    /\ disk = FreshDisk
    /\ config = DefaultConfig
    /\ config_settings = DefaultSettings
    /\ hook = NewHook("wheel")

\* Any meson, MESON set or not, any configured meson.
InitMeson ==
    /\ Unbuilt
    /\ sources = <<>>
    /\ platform = "linux"
    /\ environ \in MesonEnvirons
    /\ \E m \in MesonPrograms : system = [DefaultSystem EXCEPT !.meson = m]
    /\ disk = FreshDisk
    /\ \E m \in MesonSettings : config = [DefaultConfig EXCEPT !.meson = m]
    /\ config_settings = DefaultSettings
    /\ hook = NewHook("wheel")

\* Any ARCHFLAGS and _PYTHON_HOST_PLATFORM, on any host of either architecture.
InitCross ==
    /\ Unbuilt
    /\ sources = <<>>
    /\ platform \in Hosts
    /\ environ \in CrossEnvirons
    /\ \E a \in {Arch_arm64, Arch_x86_64} :
           system = [DefaultSystem EXCEPT !.nativearch = a]
    /\ disk = FreshDisk
    /\ config = DefaultConfig
    /\ config_settings = DefaultSettings
    /\ hook = NewHook("wheel")

\* One build: any arguments, limited-API configuration and Meson option.
InitConfigure ==
    /\ Unbuilt
    /\ sources \in { <<R_rt_main>>, <<R_rt_s1>>, <<WithDetails(R_y_cp3, [tag |-> V_dev])>> }
    /\ platform \in {"linux", "win32", "darwin"}
    /\ environ \in { <<>>, "ARCHFLAGS" :> F_x86_64 }
    /\ \E o \in BuildOptions, g \in BOOLEAN :
           system = [DefaultSystem EXCEPT !.buildoptions = o, !.gil_disabled = g]
    /\ disk \in {FreshDisk, ConfiguredDisk}
    /\ \E l \in BOOLEAN, a \in ConfigArgs :
           config = [DefaultConfig EXCEPT !.limited_api = l, !.args = a]
    /\ config_settings \in Settings
    /\ hook = NewHook("wheel")

\* Builds one after the other in one build directory.
InitBuild ==
    /\ Unbuilt
    /\ sources \in { <<R_m_pure>>, <<R_x_abi3>> }
    /\ platform \in {"linux", "win32"}
    /\ environ = <<>>
    /\ system = DefaultSystem
    /\ disk \in {FreshDisk, ConfiguredDisk}
    /\ \E l \in BOOLEAN, b \in BuildConfigs :
           config = [DefaultConfig EXCEPT !.limited_api = l, !.build_config = b]
    /\ config_settings = DefaultSettings
    /\ \E t \in {"wheel", "sdist"} : hook = NewHook(t)

\* Builds one after the other in one process on a Mac, the caller setting
\* ARCHFLAGS for each.
InitProcess ==
    /\ Unbuilt
    /\ sources \in { <<R_m_pure>>, <<R_x_abi3>> }
    /\ platform = "darwin"
    /\ environ \in { <<>>, "ARCHFLAGS" :> F_arm64, "ARCHFLAGS" :> F_x86_64 }
    /\ \E a \in {Arch_arm64, Arch_x86_64} :
           system = [DefaultSystem EXCEPT !.nativearch = a]
    /\ disk = FreshDisk
    /\ config = DefaultConfig
    /\ config_settings = DefaultSettings
    /\ hook = NewHook("wheel")

\* A direct call of _map_to_wheel(sources); os.scandir lists in any order.
MapToWheel ==
    /\ prev_result = NoResult
    /\ \E scan \in ScanOrders :
           map_result' = _map_to_wheel(sources, scan)
    /\ prev_result' = map_result
    /\ UNCHANGED <<sources, platform, pypy, limited_api, tag_result,
                   install_plan, build_data, copied, hook_error, pc>>
    /\ UNCHANGED ext

\* A direct call of _compute_tag on the install plan mapped from sources.
ComputeTag ==
    /\ tag_result = NoResult
    /\ \E scan \in ScanOrders :
         \E m \in {_map_to_wheel(sources, scan)} :
           /\ ~m.raised
           /\ tag_result' = [plan |-> m.value,
                             outcome |-> _compute_tag(m.value, limited_api,
                                                      platform, pypy)]
    /\ UNCHANGED <<sources, platform, pypy, limited_api, map_result, prev_result,
                   install_plan, build_data, copied, hook_error, pc>>
    /\ UNCHANGED ext

\* A direct call of self._get_meson_install_plan().
GetMesonInstallPlan ==
    /\ call = NoResult
    /\ \E scan \in ScanOrders :
           call' = [fn |-> "_get_meson_install_plan",
                    outcome |-> _get_meson_install_plan(sources, hook.args.install, scan)]
    /\ UNCHANGED <<core, environ, system, disk, config, config_settings, hook, log>>

\* A direct call of _is_native(fname).
IsNative ==
    /\ \E fname \in Files :
           call' = [fn |-> "_is_native", fname |-> fname,
                    value |-> _is_native(fname, platform)]
    /\ UNCHANGED <<core, environ, system, disk, config, config_settings, hook, log>>

\* MesonBuildHook.dependencies(): _get_requires_for_build_wheel()
GetRequiresForBuildWheel ==
    /\ call = NoResult
    /\ call' = [fn |-> "_get_requires_for_build_wheel",
                value |-> _get_requires_for_build_wheel(environ, system)]
    /\ UNCHANGED <<core, environ, system, disk, config, config_settings, hook, log>>

\* A direct call of _get_meson_command(config.meson).
GetMesonCommand ==
    /\ call = NoResult
    /\ call' = [fn |-> "_get_meson_command",
                outcome |-> _get_meson_command(config.meson, environ, system)]
    /\ UNCHANGED <<core, environ, system, disk, config, config_settings, hook, log>>

\* A direct call of _create_macos_crossfile(crossfile_path).
CreateMacosCrossfile ==
    /\ call = NoResult
    /\ \E r \in {_create_macos_crossfile(environ, system, platform)} :
           /\ call' = [fn |-> "_create_macos_crossfile", before |-> environ,
                       outcome |-> IF r.raised
                                   THEN [raised |-> TRUE, error |-> r.error]
                                   ELSE [raised |-> FALSE, value |-> r.value]]
           /\ environ' = r.environ
           /\ disk' = [disk EXCEPT !.cross_file = IF r.file.exists THEN r.file ELSE @]
    /\ UNCHANGED <<core, system, config, config_settings, hook, log>>

\* initialize that builds the project whatever the target is.
ConfigureAnyTarget ==
    /\ pc = "start"
    /\ \E setup_rc \in ExitCodes, compile_rc \in ExitCodes :
         \E r \in {initialize_head(hook, config, config_settings, environ, system,
                                   disk, platform, pypy, setup_rc, compile_rc)} :
             /\ pc' = IF r.built THEN "built" ELSE "failed"
             /\ log' = Append(log, StartEvent(disk.coredata)) \o r.events
             /\ limited_api' = r.limited_api
             /\ hook_error' = r.error
             /\ environ' = r.environ
             /\ disk' = r.disk
             /\ hook' = r.hook
    /\ UNCHANGED <<sources, platform, pypy, map_result, prev_result, tag_result,
                   install_plan, build_data, copied, system, config, config_settings,
                   call>>

\* MesonBuildHook.initialize up to the end of the build: nothing for a
\* target other than "wheel".
Configure ==
    /\ pc = "start"
    /\ IF hook.target_name # "wheel"
       THEN /\ pc' = "done"
            /\ log' = Append(log, StartEvent(disk.coredata))
            /\ UNCHANGED <<limited_api, hook_error, environ, disk, hook>>
       ELSE \E setup_rc \in ExitCodes, compile_rc \in ExitCodes :
              \E r \in {initialize_head(hook, config, config_settings, environ, system,
                                        disk, platform, pypy, setup_rc, compile_rc)} :
                  /\ pc' = IF r.built THEN "built" ELSE "failed"
                  /\ log' = Append(log, StartEvent(disk.coredata)) \o r.events
                  /\ limited_api' = r.limited_api
                  /\ hook_error' = r.error
                  /\ environ' = r.environ
                  /\ disk' = r.disk
                  /\ hook' = r.hook
    /\ UNCHANGED <<sources, platform, pypy, map_result, prev_result, tag_result,
                   install_plan, build_data, copied, system, config, config_settings,
                   call>>

\* MesonBuildHook.initialize of a wheel build, once the project is built.
Initialize ==
    /\ pc = "built"
    /\ \E scan \in ScanOrders, package_sources \in PackageSources :
         \E i \in {_info(hook, "intro-install_plan")},
            r \in {initialize_tail(build_data, sources, hook.args.install, scan,
                                   package_sources, limited_api, platform, pypy)} :
              /\ build_data' = r.build_data
              /\ copied' = r.copied
              /\ hook_error' = r.error
              /\ install_plan' = r.install_plan
              /\ pc' = IF r.error = NoError THEN "done" ELSE "failed"
              /\ hook' = i.hook
              /\ log' = log \o i.events \o (IF r.mapped THEN <<MapEvent>> ELSE <<>>)
    /\ UNCHANGED <<sources, platform, pypy, limited_api, map_result, prev_result,
                   tag_result, environ, system, disk, config, config_settings, call>>

\* The number of builds started so far.
Builds == Cardinality({ i \in 1..Len(log) : log[i].ev = "initialize" })

\* hatchling starts the next build in the same process: with a new hook
\* instance, or, for a further version of the target, with the instance
\* that just finished.
NextBuild ==
    /\ pc \in {"done", "failed"}
    /\ Builds < MaxBuilds
    /\ \E again \in BOOLEAN :
           /\ again => pc = "done"
           /\ hook' = IF again THEN hook ELSE NewHook(hook.target_name)
    /\ pc' = "start"
    /\ build_data' = InitialBuildData
    /\ copied' = <<>>
    /\ hook_error' = NoError
    /\ install_plan' = EmptyDict
    /\ UNCHANGED <<sources, platform, pypy, limited_api, map_result, prev_result,
                   tag_result, environ, system, disk, config, config_settings, log,
                   call>>

\* Somebody deletes meson-private/coredata.dat between two builds.
RemoveCoredata ==
    /\ pc \in {"done", "failed"}
    /\ disk.coredata
    /\ disk' = [disk EXCEPT !.coredata = FALSE]
    /\ UNCHANGED <<core, environ, system, config, config_settings, hook, log, call>>

\* Somebody deletes the build directory between two builds.
RemoveBuildDir ==
    /\ pc \in {"done", "failed"}
    /\ disk.build_dir
    /\ disk' = FreshDisk
    /\ UNCHANGED <<core, environ, system, config, config_settings, hook, log, call>>

\* The caller of the builds sets ARCHFLAGS between two of them:
\* monkeypatch.setenv("ARCHFLAGS", archflags)
Setenv ==
    /\ pc \in {"done", "failed"}
    /\ \E f \in {F_arm64, F_x86_64, F_i386} :
           /\ getenv(environ, "ARCHFLAGS") # f
           /\ environ' = DictSet(environ, "ARCHFLAGS", f)
    /\ UNCHANGED <<core, system, disk, config, config_settings, hook, log, call>>

Next ==
    \/ MapToWheel
    \/ ComputeTag
    \/ Initialize
    \/ GetMesonInstallPlan
    \/ IsNative
    \/ GetRequiresForBuildWheel
    \/ GetMesonCommand
    \/ CreateMacosCrossfile
    \/ Configure
    \/ NextBuild
    \/ RemoveCoredata
    \/ RemoveBuildDir
    \/ Setenv

Spec == Init /\ [][Next]_vars

\* The mapper called on its own, twice.
NextMap == MapToWheel

SpecMap == InitMap /\ [][NextMap]_vars

\* _compute_tag called on its own.
NextTag == ComputeTag

SpecTag == Init /\ [][NextTag]_vars

\* The build hook.
NextHook == Initialize

SpecHook == Init /\ [][NextHook]_vars

\* The selective-installation filter called on its own.
NextFilter == GetMesonInstallPlan

SpecFilter == InitFilter /\ [][NextFilter]_vars

\* _is_native called on its own.
NextNative == IsNative

SpecNative == InitNative /\ [][NextNative]_vars

\* The build requirements.
NextNinja == GetRequiresForBuildWheel

SpecNinja == InitNinja /\ [][NextNinja]_vars

\* The meson command.
NextMeson == GetMesonCommand

SpecMeson == InitMeson /\ [][NextMeson]_vars

\* The macOS cross file.
NextCross == CreateMacosCrossfile

SpecCross == InitCross /\ [][NextCross]_vars

\* One whole build.
NextConfigure == Configure \/ Initialize

SpecConfigure == InitConfigure /\ [][NextConfigure]_vars

\* Builds that share a process and a build directory.
NextBuilds == Configure \/ Initialize \/ NextBuild \/ RemoveCoredata \/ RemoveBuildDir

SpecBuild == InitBuild /\ [][NextBuilds]_vars

\* Builds that share a process, under the ARCHFLAGS of their caller.
NextProcess == Configure \/ Initialize \/ NextBuild \/ Setenv

SpecProcess == InitProcess /\ [][NextProcess]_vars

\* ------------------------------------------------------------------ claims
Buckets == {"scripts", "purelib", "platlib", "data"}

TagPlan == tag_result.plan
TagOutcome == tag_result.outcome
TagCalled == tag_result # NoResult

\* Some / no entry of the scripts bucket is native code on the host.
HasNativeScript(plan) ==
    \E i \in 1..Len(DDGet(plan, "scripts")) :
        _is_native(DDGet(plan, "scripts")[i][2], platform)

\* The platlib entry is named like an extension module tagged with an ABI
\* other than abi3.
VersionTagged(entry) ==
    LET m == _EXTENSION_SUFFIX_REGEX(PathName(entry[1]))
    IN m.matched /\ m.abi # NoText /\ m.abi # abi3

\* C1: an install plan with an empty platlib bucket and no native script is
\* pure and is tagged py3-none-any, whatever purelib and data hold and
\* whatever the limited-API setting is.
C1_PureIsAny ==
    (TagCalled /\ DDGet(TagPlan, "platlib") = <<>> /\ ~HasNativeScript(TagPlan))
    => /\ _install_is_pure(TagPlan, platform)
       /\ ~TagOutcome.raised
       /\ TagOutcome.value =
              [interpreter |-> "py3", abi |-> "none", platform |-> "any"]
       /\ TagStr(TagOutcome.value) = <<"py3", "-", "none", "-", "any">>

C1_Witness ==
    /\ TagCalled
    /\ DDGet(TagPlan, "platlib") = <<>>
    /\ DDGet(TagPlan, "scripts") # <<>>
    /\ ~HasNativeScript(TagPlan)
    /\ DDGet(TagPlan, "purelib") # <<>>
    /\ DDGet(TagPlan, "data") # <<>>
    /\ limited_api

\* C2: an install plan with an empty platlib bucket and a native script is
\* not pure and is tagged py3-none-<host platform>, never "any", with or
\* without limited API; the stable-ABI audit raises nothing.
C2_NativeScriptIsGeneric ==
    (TagCalled /\ DDGet(TagPlan, "platlib") = <<>> /\ HasNativeScript(TagPlan))
    => /\ ~_install_is_pure(TagPlan, platform)
       /\ ~TagOutcome.raised
       /\ TagOutcome.value.interpreter = "py3"
       /\ TagOutcome.value.abi = "none"
       /\ TagOutcome.value.platform = get_platform_tag(platform)
       /\ TagOutcome.value.platform # "any"

C2_Witness ==
    /\ TagCalled
    /\ DDGet(TagPlan, "platlib") = <<>>
    /\ HasNativeScript(TagPlan)
    /\ ~HasNativeScript([scripts |-> SubSeq(TagPlan["scripts"], 1, 1)])
    /\ limited_api
    /\ ~pypy
    /\ platform = "darwin"

\* C3: with a non-empty platlib bucket and limited API not requested, or on
\* PyPy, _compute_stable_abi returns None without raising whatever the
\* platlib names are, and the tag is the runtime's interpreter, ABI and
\* platform.
C3_NoLimitedApiIsConcrete ==
    (TagCalled /\ DDGet(TagPlan, "platlib") # <<>> /\ (~limited_api \/ pypy))
    => /\ _compute_stable_abi(TagPlan, limited_api, pypy)
              = [raised |-> FALSE, value |-> None]
       /\ ~TagOutcome.raised
       /\ TagOutcome.value =
              [interpreter |-> get_interpreter_tag(pypy),
               abi |-> get_abi_tag(pypy),
               platform |-> get_platform_tag(platform)]

C3_Witness ==
    /\ TagCalled
    /\ limited_api
    /\ pypy
    /\ Len(DDGet(TagPlan, "platlib")) > 1
    /\ VersionTagged(TagPlan["platlib"][2])

\* C4: limited API requested, not PyPy, platlib not empty and no entry named
\* like an extension module with an ABI tag other than abi3: the audit returns
\* "abi3" and the tag is <interpreter>-abi3-<host platform>; entries that do
\* not match the pattern or have no ABI tag do not matter.
C4_StableAbiIsAbi3 ==
    (/\ TagCalled
     /\ limited_api /\ ~pypy
     /\ DDGet(TagPlan, "platlib") # <<>>
     /\ \A i \in 1..Len(DDGet(TagPlan, "platlib")) :
            ~VersionTagged(TagPlan["platlib"][i]))
    => /\ _compute_stable_abi(TagPlan, limited_api, pypy)
              = [raised |-> FALSE, value |-> "abi3"]
       /\ ~TagOutcome.raised
       /\ TagOutcome.value =
              [interpreter |-> get_interpreter_tag(pypy),
               abi |-> "abi3",
               platform |-> get_platform_tag(platform)]
       /\ TagStr(TagOutcome.value) =
              <<get_interpreter_tag(pypy), "-", "abi3", "-",
                get_platform_tag(platform)>>

C4_Witness ==
    /\ TagCalled
    /\ limited_api /\ ~pypy
    /\ ~TagOutcome.raised
    /\ LET names == [i \in 1..Len(DDGet(TagPlan, "platlib")) |->
                        _EXTENSION_SUFFIX_REGEX(PathName(TagPlan["platlib"][i][1]))]
       IN /\ \E i \in 1..Len(names) : names[i].matched /\ names[i].abi = abi3
          /\ \E i \in 1..Len(names) : names[i].matched /\ names[i].abi = NoText
          /\ \E i \in 1..Len(names) : ~names[i].matched

\* C5: limited API requested, not PyPy, and some platlib entry named like an
\* extension module has an ABI tag other than abi3: _compute_tag raises a
\* BuildError naming the first such file and returns no tag, wherever the
\* entry sits and whatever the other entries are.
C5_VersionTaggedFails ==
    (/\ TagCalled
     /\ limited_api /\ ~pypy
     /\ \E i \in 1..Len(DDGet(TagPlan, "platlib")) :
            VersionTagged(TagPlan["platlib"][i]))
    => LET platlib == TagPlan["platlib"]
           first == CHOOSE i \in 1..Len(platlib) :
                        /\ VersionTagged(platlib[i])
                        /\ \A j \in 1..(i - 1) : ~VersionTagged(platlib[j])
       IN /\ TagOutcome.raised
          /\ "value" \notin DOMAIN TagOutcome
          /\ TagOutcome.error.type = "BuildError"
          /\ TagOutcome.error.path = platlib[first][1]

C5_Witness ==
    /\ TagCalled
    /\ limited_api /\ ~pypy
    /\ TagOutcome.raised
    /\ Len(DDGet(TagPlan, "platlib")) = 3
    /\ ~VersionTagged(TagPlan["platlib"][1])
    /\ _EXTENSION_SUFFIX_REGEX(PathName(TagPlan["platlib"][1][1])).abi = abi3
    /\ ~VersionTagged(TagPlan["platlib"][2])
    /\ VersionTagged(TagPlan["platlib"][3])

\* C6: a build whose mapped install plan has entries in both purelib and
\* platlib fails with the mixed-layout BuildError, whatever scripts and data
\* hold and whatever the limited-API setting is; no tag is set and nothing
\* is copied.
C6_MixedLayoutFails ==
    (/\ pc # "built"
     /\ DDGet(install_plan, "purelib") # <<>>
     /\ DDGet(install_plan, "platlib") # <<>>)
    => /\ pc = "failed"
       /\ hook_error = MixedLayoutError
       /\ build_data.tag = NoText
       /\ build_data.force_include = EmptyDict
       /\ build_data.artifacts = <<>>
       /\ copied = <<>>

C6_Witness ==
    /\ pc = "failed"
    /\ hook_error = MixedLayoutError
    /\ DDGet(install_plan, "purelib") # <<>>
    /\ DDGet(install_plan, "platlib") # <<>>
    /\ DDGet(install_plan, "scripts") # <<>>
    /\ limited_api

\* The placeholder table of the specification.
PlaceholderBucket ==
    ("{bindir}" :> "scripts") @@ ("{py_purelib}" :> "purelib")
    @@ ("{py_platlib}" :> "platlib") @@ ("{moduledir_shared}" :> "platlib")
    @@ ("{datadir}" :> "data")

Mapped == map_result # NoResult /\ ~map_result.raised

Anchor(rec) == rec.target.destination.anchor

\* C7: a single-file record under a recognised placeholder contributes
\* exactly one entry, (destination without its first segment, source), to
\* the bucket the table gives and to no other; the result has no bucket
\* beyond scripts, purelib, platlib and data.
C7_SingleFileMapping ==
    Mapped =>
       /\ DOMAIN map_result.value \subseteq Buckets
       /\ \A b \in Buckets :
            DDGet(map_result.value, b) =
              Flatten([i \in 1..Len(sources) |->
                  IF PlaceholderBucket[Anchor(sources[i])] # b THEN <<>>
                  ELSE IF is_directory_record(sources[i])
                       THEN record_entries(sources[i], "asc")
                  ELSE << <<sources[i].target.destination.rest,
                            sources[i].src>> >>])

C7_Witness ==
    /\ Mapped
    /\ Len(sources) = 3
    /\ \A i \in 1..3 : ~is_directory_record(sources[i])
    /\ Anchor(sources[1]) = "{moduledir_shared}"
    /\ Anchor(sources[2]) = "{py_platlib}"
    /\ Anchor(sources[3]) = "{datadir}"
    /\ isdir(sources[3].src)

\* C8: when some record starts with a placeholder that is not in the table,
\* the mapper raises an error that carries the destination of the first such
\* record and returns no mapping, wherever that record is in the plan.
C8_UnmappedRaises ==
    (/\ map_result # NoResult
     /\ \E i \in 1..Len(sources) : Anchor(sources[i]) \notin DOMAIN PlaceholderBucket)
    => LET first == CHOOSE i \in 1..Len(sources) :
                        /\ Anchor(sources[i]) \notin DOMAIN PlaceholderBucket
                        /\ \A j \in 1..(i - 1) :
                               Anchor(sources[j]) \in DOMAIN PlaceholderBucket
       IN /\ map_result.raised
          /\ "value" \notin DOMAIN map_result
          /\ map_result.error.text =
               "Could not map installation path to an equivalent wheel directory"
          /\ map_result.error.destination = sources[first].target.destination

C8_Witness ==
    /\ map_result # NoResult
    /\ map_result.raised
    /\ Len(sources) = 3
    /\ Anchor(sources[1]) = "{py_purelib}"
    /\ is_directory_record(sources[1])
    /\ Anchor(sources[2]) = "{bindir}"
    /\ Anchor(sources[3]) = "{libdir}"

\* The entries the specification asks of a directory record: the files below
\* the source whose relative path is not excluded and that have no excluded
\* ancestor.
RelOf(f, src) == SubSeq(f, Len(src) + 1, Len(f))

DirEntries(rec) ==
    LET src == rec.src
        xf == exclude_set(rec.target.exclude_files)
        xd == exclude_set(rec.target.exclude_dirs)
        kept == { f \in Files :
                    /\ Len(f) > Len(src)
                    /\ SubSeq(f, 1, Len(src)) = src
                    /\ RelOf(f, src) \notin xf
                    /\ \A k \in 1..(Len(f) - Len(src) - 1) :
                           SubSeq(RelOf(f, src), 1, k) \notin xd }
    IN { <<rec.target.destination.rest \o RelOf(f, src), f>> : f \in kept }

EntryCount(rec) ==
    IF is_directory_record(rec) THEN Cardinality(DirEntries(rec)) ELSE 1

RECURSIVE CountBefore(_, _, _)
CountBefore(recs, i, b) ==
    IF i <= 1 THEN 0
    ELSE CountBefore(recs, i - 1, b)
         + (IF _INSTALLATION_PATH_MAP(Anchor(recs[i - 1])) = b
            THEN EntryCount(recs[i - 1]) ELSE 0)

\* Every bucket is as long as the records mapped to it ask.
SizesFit ==
    \A b \in Buckets :
        Len(DDGet(map_result.value, b)) = CountBefore(sources, Len(sources) + 1, b)

\* The part of its bucket that record i filled.
SliceOf(i) ==
    LET b == _INSTALLATION_PATH_MAP(Anchor(sources[i]))
        off == CountBefore(sources, i, b)
    IN SubSeq(DDGet(map_result.value, b), off + 1, off + EntryCount(sources[i]))

\* C9: a directory record (any record of install_subdirs, a record of
\* targets whose source is a directory) contributes exactly one entry
\* dst/relative_path for every file below its source that is not in
\* exclude_files and has no ancestor in exclude_dirs, and nothing else.
C9_DirectoryExpansion ==
    Mapped =>
       /\ SizesFit
       /\ \A i \in 1..Len(sources) :
              is_directory_record(sources[i])
              => Range(SliceOf(i)) = DirEntries(sources[i])

C9_Witness ==
    /\ Mapped
    /\ Len(sources) = 3
    /\ sources[2] = R_pkg_pure1
    /\ sources[3] = R_pkg_target
    /\ <<<<N_pkg, N_c, N_d_py>>, PkgDir \o <<N_c, N_d_py>>>>
           \in Range(map_result.value["purelib"])
    /\ <<<<N_pkg, N_b_py>>, PkgDir \o <<N_b_py>>>>
           \notin Range(map_result.value["purelib"])
    /\ <<<<N_b_py>>, PkgDir \o <<N_b_py>>>> \in Range(map_result.value["data"])

\* The order of one directory walk: a directory's files in lexical order
\* before the files of its sub-directories, these in lexical order.
WalkBefore(r1, r2) ==
    LET k == CommonLen(r1, r2) + 1
    IN IF Len(r1) = k /\ Len(r2) = k THEN StrLess(r1[k], r2[k])
       ELSE IF Len(r1) = k THEN TRUE
       ELSE IF Len(r2) = k THEN FALSE
       ELSE StrLess(r1[k], r2[k])

\* C10: bucket order depends on the input alone: records contribute in plan
\* order, a directory record in walk order, whatever order the file system
\* lists directories in; two runs on the same input return the same buckets.
C10_DeterministicOrder ==
    /\ prev_result # NoResult => map_result = prev_result
    /\ (Mapped /\ SizesFit) =>
         \A i \in 1..Len(sources) :
            LET slice == SliceOf(i)
                src == sources[i].src
            IN IF is_directory_record(sources[i])
               THEN \A j, k \in 1..Len(slice) :
                        j < k => WalkBefore(RelOf(slice[j][2], src),
                                            RelOf(slice[k][2], src))
               ELSE slice = << <<sources[i].target.destination.rest, src>> >>

C10_Witness ==
    /\ Mapped
    /\ prev_result # NoResult
    /\ Len(sources) = 2
    /\ sources[1] = R_pkg_target
    /\ sources[2] = R_m_data
    /\ Len(map_result.value["data"]) = 6
    /\ map_result.value["data"][1][1] = <<N_B_py>>
    /\ map_result.value["data"][4][1] = <<N_c, N_e, N_f_py>>
    /\ map_result.value["data"][5][1] = <<N_g, N_h_so>>
    /\ map_result.value["data"][6][1] = <<N_pkg, N_m_py>>

\* The install arguments of the hook, and what they ask for: the wanted
\* tags if any, the subprojects to skip, or all of them.
InstallArgs == hook.args.install

Asks(any_tag, tags, all, skip) ==
    [any_tag |-> any_tag, tags |-> tags, all |-> all, skip |-> skip]

Asked ==
    (<<>> :> Asks(TRUE, {}, FALSE, {}))
 @@ (<<Opt_tags, V_rt>> :> Asks(FALSE, {V_rt}, FALSE, {}))
 @@ (<<A_tags_eq_rt>> :> Asks(FALSE, {V_rt}, FALSE, {}))
 @@ (<<Opt_tags, V_rt_dev>> :> Asks(FALSE, {V_rt, V_dev}, FALSE, {}))
 @@ (<<A_tags_eq>> :> Asks(TRUE, {}, FALSE, {}))
 @@ (<<A_tag_eq_dev>> :> Asks(FALSE, {V_dev}, FALSE, {}))
 @@ (<<A_tags_eq_rt, Opt_tags, V_dev>> :> Asks(FALSE, {V_dev}, FALSE, {}))
 @@ (<<Opt_skip_subprojects>> :> Asks(TRUE, {}, TRUE, {}))
 @@ (<<Opt_skip_subprojects, V_s1>> :> Asks(TRUE, {}, FALSE, {V_s1}))
 @@ (<<A_skip_eq_s1_s2>> :> Asks(TRUE, {}, FALSE, {V_s1, V_s2}))
 @@ (<<A_skip_eq_star>> :> Asks(TRUE, {}, TRUE, {}))
 @@ (<<A_skip_eq_padded>> :> Asks(TRUE, {}, FALSE, {V_s1}))
 @@ (<<Opt_skip_subprojects, Opt_tags, V_rt>> :> Asks(FALSE, {V_rt}, TRUE, {}))
 @@ (<<Opt_tags, V_dev, Opt_skip_subprojects, V_s2>> :> Asks(FALSE, {V_dev}, FALSE, {V_s2}))
 @@ (<<A_destdir, V_s1, Opt_tags, V_dev>> :> Asks(FALSE, {V_dev}, FALSE, {}))
 @@ (<<A_dashdash, Opt_tags, V_rt>> :> Asks(TRUE, {}, FALSE, {}))

HasSubproject(rec) ==
    "subproject" \in DOMAIN rec.target /\ rec.target.subproject # NoText

\* The record is to be kept under the install arguments.
Wanted(rec) ==
    /\ Asked[InstallArgs].any_tag \/ rec.target.tag \in Asked[InstallArgs].tags
    /\ \/ ~HasSubproject(rec)
       \/ /\ ~Asked[InstallArgs].all
          /\ rec.target.subproject \notin Asked[InstallArgs].skip

FilterRan == call # NoResult /\ call.outcome.mapped

\* C11: whenever the filter of _get_meson_install_plan runs to its end, the
\* records it hands to the mapper are exactly the records that (no --tags
\* value given, or tag among the wanted ones) and (no subproject, or
\* subproject neither named by --skip-subprojects nor covered by the
\* wildcard), unchanged and in their original order.
C11_FilterKeepsWanted ==
    FilterRan => call.outcome.sources = SelectSeq(sources, Wanted)

\* Tags and subprojects both given: one record kept, one dropped for its
\* tag, one for its subproject.
C11_Witness ==
    /\ FilterRan
    /\ InstallArgs = <<Opt_tags, V_dev, Opt_skip_subprojects, V_s2>>
    /\ sources = <<R_rt_s1, R_dev_main, R_dev_s2>>
    /\ call.outcome.sources = <<R_dev_main>>

\* The leading bytes of the file _is_native was called on.
Leading(n) ==
    [i \in 1..(IF Len(FileContent[call.fname]) < n
               THEN Len(FileContent[call.fname]) ELSE n) |-> FileContent[call.fname][i]]

\* C12: _is_native is true on win32 and cygwin iff the file starts with
\* 'MZ', on darwin iff its first four bytes are one of the four Mach-O
\* magics, on every other host iff they are 0x7F 'E' 'L' 'F'.
C12_NativeByHostAndMagic ==
    call # NoResult =>
        call.value =
            IF platform \in {"win32", "cygwin"} THEN Leading(2) = <<77, 90>>
            ELSE IF platform = "darwin"
            THEN \/ Leading(4) = <<254, 237, 250, 206>>
                 \/ Leading(4) = <<254, 237, 250, 207>>
                 \/ Leading(4) = <<207, 250, 237, 254>>
                 \/ Leading(4) = <<202, 254, 186, 190>>
            ELSE Leading(4) = <<127, 69, 76, 70>>

\* An ELF file is found not native on darwin.
C12_Witness ==
    /\ call # NoResult
    /\ platform = "darwin"
    /\ Leading(4) = <<127, 69, 76, 70>>
    /\ call.value = FALSE

\* The configuration asks for the limited API, and the Meson project allows it.
LimitedRequested == config.limited_api
LimitedAllowed == system.buildoptions = OptionsAllowed

BuildOptionsRead == \E i \in 1..Len(log) : log[i] = InfoEvent("intro-buildoptions")

HasPlatlib == "platlib" \in DOMAIN install_plan /\ install_plan["platlib"] # <<>>

\* C13: the limited-API setting of a build is the configuration's
\* limited_api and a true 'python.allow_limited_api' build option together:
\* requested but not allowed (option false or absent), the build goes on as
\* if not requested, without audit and with the interpreter's own ABI tag;
\* not requested, the build options are not read.
C13_LimitedApiConjunction ==
    /\ pc \in {"built", "done"} => limited_api = (LimitedRequested /\ LimitedAllowed)
    /\ ~(LimitedRequested /\ LimitedAllowed) => hook_error.type # "BuildError"
    /\ (pc = "done" /\ HasPlatlib /\ ~(LimitedRequested /\ LimitedAllowed)) =>
           /\ build_data.tag[1] = get_interpreter_tag(pypy)
           /\ build_data.tag[3] = get_abi_tag(pypy)
    /\ ~LimitedRequested => ~BuildOptionsRead

\* Limited API requested and switched off in the project: a version-tagged
\* extension module is built into a wheel with the interpreter's ABI tag.
C13_Witness ==
    /\ pc = "done"
    /\ LimitedRequested
    /\ system.buildoptions = OptionsForbidden
    /\ BuildOptionsRead
    /\ HasPlatlib
    /\ PathName(install_plan["platlib"][1][1]) = N_y_cp3_so
    /\ build_data.tag[3] = get_abi_tag(pypy)

\* The events of the build under way or just finished, and its commands.
LastStart ==
    CHOOSE i \in 1..Len(log) :
        log[i].ev = "initialize" /\ \A j \in (i + 1)..Len(log) : log[j].ev # "initialize"

CurrentEvents == SubSeq(log, LastStart + 1, Len(log))

IsRun(event) == event.ev = "run"

IsSetup(h, cmd) == SubSeq(cmd, 1, Len(h.meson) + 1) = h.meson \o <<W_setup>>

IsCompile(h, cmd) ==
    IF platform = "win32"
    THEN SubSeq(cmd, 1, Len(h.meson) + 1) = h.meson \o <<W_compile>>
    ELSE cmd[1] = h.ninja

W_install == <<"i", "n", "s", "t", "a", "l", "l">>

NoInstall(runs) == \A i \in 1..Len(runs) : W_install \notin Range(runs[i].cmd)

WheelBuilt == pc = "done" /\ hook.target_name = "wheel"

Reconfigures(i) == Opt_reconfigure \in Range(log[i + 1].cmd)

SetupRuns == { i \in 1..(Len(log) - 1) : log[i].ev = "initialize" /\ log[i + 1].ev = "run" }

\* C15: over the builds sharing a build directory, "meson setup" gets
\* --reconfigure exactly when meson-private/coredata.dat is a file as the
\* build starts; a build that got past "meson setup" leaves that file behind.
C15_ReconfigureIffCoredata ==
    /\ \A i \in SetupRuns :
           /\ log[i + 1].cmd[2] = W_setup
           /\ Reconfigures(i) <=> log[i].coredata
    /\ pc = "built" => disk.coredata

\* Three builds in one directory: the first into a fresh directory, the
\* second after the first succeeded, the third after coredata.dat went away.
C15_Witness ==
    /\ Cardinality(SetupRuns) = 3
    /\ \E i, j, k \in SetupRuns :
           /\ i < j /\ j < k
           /\ ~Reconfigures(i) /\ Reconfigures(j) /\ ~Reconfigures(k)
           /\ log[j - 1].ev = "map"

\* The build directory of the build and the two lists of user arguments.
BuildDirText ==
    IF config_settings.build_dir # NoText THEN config_settings.build_dir
    ELSE DefaultBuildDir(pypy)

ConfigThenCmdline ==
    [setup |-> config.args.setup \o _aslist(config_settings.setup_args),
     compile |-> config.args.compile \o _aslist(config_settings.compile_args),
     install |-> config.args.install \o _aslist(config_settings.install_args)]

DefaultBuildOptions == <<D_buildtype_release, D_b_ndebug_if_release, D_b_vscrt_md>>

GeneratedNativeFile == Opt_native_file_eq \o BuildDirText \o NativeFileName

Runs == SelectSeq(log, IsRun)

\* C16: the command-line arguments follow the configuration-file arguments
\* for setup, compile and install; "meson setup" gets the source directory,
\* the build directory, the default build options, the configuration-file
\* arguments, the command-line arguments and, last, the generated native
\* file (--reconfigure, when given, comes first and the generated
\* --cross-file right before the native file).
C16_CmdlineAfterConfig ==
    /\ pc # "start" => hook.args.install = ConfigThenCmdline.install
    /\ Len(Runs) >= 1 =>
           \E reconfigure \in {<<>>, <<Opt_reconfigure>>},
              cross \in {<<>>, <<Opt_cross_file, BuildDirText \o CrossFileName>>} :
                  Runs[1].cmd = hook.meson \o <<W_setup>> \o reconfigure
                                  \o <<SourceDirText, BuildDirText>>
                                  \o DefaultBuildOptions
                                  \o ConfigThenCmdline.setup
                                  \o cross
                                  \o <<GeneratedNativeFile>>
    /\ Len(Runs) >= 2 =>
           Runs[2].cmd = IF platform = "win32"
                         THEN hook.meson \o <<W_compile>>
                                \o (IF ConfigThenCmdline.compile # <<>>
                                    THEN <<NinjaArgs(ConfigThenCmdline.compile)>>
                                    ELSE <<>>)
                         ELSE <<hook.ninja>> \o ConfigThenCmdline.compile

\* A finished build with configuration-file and command-line arguments of
\* all three kinds, a user -Dbuildtype and a user native file.
C16_Witness ==
    /\ pc = "done"
    /\ Len(Runs) = 2
    /\ \A kind \in {"setup", "compile", "install"} : config.args[kind] # <<>>
    /\ config_settings.setup_args = ListArg(<<U_native_file, U_buildtype_debug>>)
    /\ config_settings.compile_args # NoArgs
    /\ config_settings.install_args # NoArgs
    /\ Runs[1].cmd[Len(Runs[1].cmd)] = GeneratedNativeFile

\* The outputs of "ninja --version" that tell a version of at least 1.8.2.
AtLeast_1_8_2 == { V_1_8_2, V_1_8_3, V_1_10_0, V_1_9, V_2, V_1_8_2_git }

NinjaCandidates == { N_ninja, N_ninja_build, N_samu }

UsableNinjaOnPath ==
    \E name \in NinjaCandidates :
        name \in DOMAIN system.path /\ system.path[name].stdout \in AtLeast_1_8_2

RequiresCalled == call # NoResult /\ call.fn = "_get_requires_for_build_wheel"

\* C17: _get_requires_for_build_wheel returns the ninja requirement when
\* NINJA is not set and none of ninja, ninja-build, samu is on the path with
\* a version of at least 1.8.2, and an empty list in every other case.
C17_NinjaRequiredIffNoneFound ==
    RequiresCalled =>
        call.value = IF "NINJA" \notin DOMAIN environ /\ ~UsableNinjaOnPath
                     THEN <<NinjaRequirement>>
                     ELSE <<>>

\* The requirement is returned although ninja and ninja-build are on the
\* path: one reports an unparsable version, the other 1.8.1.
C17_Witness ==
    /\ RequiresCalled
    /\ call.value = <<NinjaRequirement>>
    /\ N_ninja \in DOMAIN system.path /\ system.path[N_ninja].stdout = V_1_8_2_rc
    /\ N_ninja_build \in DOMAIN system.path

\* The meson _get_meson_command selects, and the outputs of "meson
\* --version" that tell a version of at least 0.64.0.
SelectedMeson ==
    IF "MESON" \in DOMAIN environ THEN environ["MESON"]
    ELSE IF config.meson \notin {NoText, <<>>} THEN config.meson
    ELSE N_meson

AtLeast_0_64_0 == { V_0_64_0, V_1_5_1 }

MesonCalled == call # NoResult /\ call.fn = "_get_meson_command"

MesonExists == SelectedMeson \in DOMAIN system.meson

IsConfigError(outcome) == outcome.raised /\ outcome.error.type = "ConfigError"

\* C18: _get_meson_command returns a command only for a selected meson
\* (MESON, else the configured one, else "meson") that exists, exits with 0
\* on --version and reports at least the required version; a missing .py
\* script, a missing executable, a non-zero exit and an older version each
\* raise ConfigError; a .py script is run by the current Python.
C18_MesonCommand ==
    MesonCalled =>
        LET outcome == call.outcome
            meson == system.meson[SelectedMeson]
        IN /\ ~outcome.raised =>
                  /\ MesonExists
                  /\ meson.returncode = 0
                  /\ meson.stdout \in AtLeast_0_64_0
                  /\ outcome.value = IF EndsWith(SelectedMeson, DotPy)
                                     THEN <<PyExe, Cwd \o <<"/">> \o SelectedMeson>>
                                     ELSE <<SelectedMeson>>
           /\ ~MesonExists => IsConfigError(outcome)
           /\ (MesonExists /\ meson.executable /\ meson.returncode # 0) =>
                  IsConfigError(outcome)
           /\ (MesonExists /\ meson.executable /\ meson.stdout \notin AtLeast_0_64_0) =>
                  IsConfigError(outcome)

\* MESON names a script that is too old while the configured meson and the
\* meson on the path are fine: ConfigError.
C18_Witness ==
    /\ MesonCalled
    /\ SelectedMeson = N_meson_py
    /\ config.meson = N_meson
    /\ {N_meson, N_meson_py} \subseteq DOMAIN system.meson
    /\ system.meson[N_meson] = Meson(0, V_1_5_1)
    /\ system.meson[N_meson_py] = Meson(0, V_0_0_1)
    /\ IsConfigError(call.outcome)

\* What each ARCHFLAGS asks for: whether it holds something other than
\* -arch, and the architectures it names.
OtherFlags == { F_arm64_define, F_positional }

NamedArchs ==
    (F_arm64 :> {Arch_arm64}) @@ (F_x86_64 :> {Arch_x86_64})
    @@ (F_x86_64_padded :> {Arch_x86_64}) @@ (F_arm64_twice :> {Arch_arm64})
    @@ (F_arm64_x86_64 :> {Arch_arm64, Arch_x86_64})
    @@ (F_arm64_define :> {Arch_arm64}) @@ (F_arch :> {})
    @@ (F_arm64_arch :> {Arch_arm64}) @@ (F_arch_eq_x86_64 :> {Arch_x86_64})
    @@ (F_positional :> {})

CrossCalled == call # NoResult /\ call.fn = "_create_macos_crossfile"

\* The call was made on a macOS host with something in ARCHFLAGS.
OnMacWithArchflags ==
    /\ CrossCalled
    /\ StartsWith(get_platform(call.before, system, platform),
                  <<"m", "a", "c", "o", "s", "x", "-">>)
    /\ "ARCHFLAGS" \in DOMAIN call.before
    /\ call.before["ARCHFLAGS"] \notin { <<>>, F_blank }

HostPlatformOf(env) == env["_PYTHON_HOST_PLATFORM"]

\* C19: on a macOS host with a non-empty ARCHFLAGS, _create_macos_crossfile
\* raises ConfigError for a flag other than -arch and for more than one
\* architecture; for a single architecture other than the native one it
\* raises ConfigError when _PYTHON_HOST_PLATFORM is set and does not end
\* with it, and otherwise sets the variable if absent, writes the cross file
\* and returns true; in all other cases it returns false and writes nothing.
C19_CrossFileIffForeignArch ==
    OnMacWithArchflags =>
        LET flags == call.before["ARCHFLAGS"]
            archs == NamedArchs[flags]
            outcome == call.outcome
        IN IF flags \in OtherFlags \/ Cardinality(archs) > 1
           THEN IsConfigError(outcome) /\ ~disk.cross_file.exists
           ELSE IF archs # {} /\ archs # {system.nativearch}
           THEN LET arch == CHOOSE a \in archs : TRUE
                IN IF /\ "_PYTHON_HOST_PLATFORM" \in DOMAIN call.before
                      /\ ~EndsWith(HostPlatformOf(call.before), arch)
                   THEN IsConfigError(outcome) /\ ~disk.cross_file.exists
                   ELSE /\ ~outcome.raised /\ outcome.value = TRUE
                        /\ disk.cross_file = [exists |-> TRUE, data |-> CrossFileData(arch)]
                        /\ "_PYTHON_HOST_PLATFORM" \in DOMAIN environ
                        /\ EndsWith(HostPlatformOf(environ), arch)
                        /\ "_PYTHON_HOST_PLATFORM" \in DOMAIN call.before =>
                               environ = call.before
           ELSE /\ ~outcome.raised /\ outcome.value = FALSE
                /\ ~disk.cross_file.exists
                /\ environ = call.before

\* The build stopped at the purelib/platlib check or at the stable-ABI check.
AbortedOnLayoutOrAbi ==
    /\ pc = "failed"
    /\ \/ hook_error = MixedLayoutError
       \/ /\ "path" \in DOMAIN hook_error
          /\ hook_error = StableAbiError(hook_error.path)

\* C20: a wheel build that stops with the mixed-layout error or with a
\* stable-ABI violation leaves build_data as it was when the build began
\* and has copied no file into the package source tree.
C20_NoPartialResults ==
    AbortedOnLayoutOrAbi => build_data = InitialBuildData /\ copied = <<>>

\* The mapper was called on a plan with a record whose placeholder is not in
\* the table.
UnmappedCalled ==
    /\ map_result # NoResult
    /\ \E i \in 1..Len(sources) : Anchor(sources[i]) \notin DOMAIN PlaceholderBucket

\* C21 as stated: an unrecognized destination placeholder is reported as a
\* ConfigError and not as a BuildError.
C21_UnmappedIsConfigError ==
    UnmappedCalled => map_result.raised /\ map_result.error.type = "ConfigError"

\* C21: an unrecognized destination placeholder is reported as a BuildError,
\* the error of the installation step, and not as a ConfigError.
C21_UnmappedIsBuildError ==
    UnmappedCalled => map_result.raised /\ map_result.error.type = "BuildError"

\* The only record of the plan goes to {libdir}.
C21_Witness ==
    /\ UnmappedCalled
    /\ Len(sources) = 1
    /\ Anchor(sources[1]) = "{libdir}"
    /\ map_result.raised

\* An install-plan entry without a 'destination' or without a 'tag'.
Malformed(rec) ==
    "destination" \notin DOMAIN rec.target \/ "tag" \notin DOMAIN rec.target

\* _get_meson_install_plan has been called on the plan.
PlanCalled == call # NoResult /\ call.fn = "_get_meson_install_plan"

\* C22: whenever the install plan holds an entry that lacks 'destination' or
\* 'tag', reading the plan fails with a configuration error, whatever the
\* install arguments are and wherever the entry stands in the plan.
C22_MalformedIsConfigError ==
    (PlanCalled /\ \E i \in 1..Len(sources) : Malformed(sources[i])) =>
        call.outcome.raised /\ call.outcome.error.type = "ConfigError"

\* Every (dst, src) entry of a bucket is in the dict d as d[src] = dst, a
\* later entry of the same source replacing an earlier one.
Registered(entries, d) ==
    \A i \in 1..Len(entries) :
        /\ entries[i][2] \in DOMAIN d
        /\ \E j \in i..Len(entries) :
               entries[j][2] = entries[i][2] /\ d[entries[i][2]] = entries[j][1]

\* Every (dstrel, src) entry of a bucket has its force_include row and its
\* artifact under the package source directory.
Included(entries) ==
    \A i \in 1..Len(entries) :
        \E dst \in DOMAIN build_data.force_include :
            /\ build_data.force_include[dst] = entries[i][1]
            /\ \E k \in 1..Len(build_data.artifacts) : build_data.artifacts[k] = dst

\* C23: after a successful wheel build every entry of the data bucket is in
\* build_data['shared_data'], as every entry of the scripts bucket is in
\* build_data['shared_scripts']; no entry of the four buckets is left out.
C23_AllBucketsRegistered ==
    pc = "done" =>
        /\ Registered(DDGet(install_plan, "scripts"), build_data.shared_scripts)
        /\ Registered(DDGet(install_plan, "data"), build_data.shared_data)
        /\ Included(DDGet(install_plan, "purelib"))
        /\ Included(DDGet(install_plan, "platlib"))

\* The variables the hook sets in os.environ.
HookVariables == {"NINJA", "_PYTHON_HOST_PLATFORM"}

\* os.environ as the caller of the builds made it: without what earlier
\* builds of the process left in it.
CallerEnviron == [k \in DOMAIN environ \ HookVariables |-> environ[k]]

\* The step is a wheel build from its start to the end of the compilation.
WheelBuildStep == pc = "start" /\ pc' # "start" /\ hook.target_name = "wheel"

\* C24 as stated: a wheel build leaves no process-wide state behind that
\* changes a later build of the same process: every build finds the meson
\* and the ninja, runs the commands and ends the way it does in a process
\* that has only the caller's environment.
C24_NoSharedState ==
    [][WheelBuildStep =>
         \E setup_rc \in ExitCodes, compile_rc \in ExitCodes :
            \E f \in {initialize_head(hook, config, config_settings, CallerEnviron,
                                      system, disk, platform, pypy, setup_rc,
                                      compile_rc)} :
                /\ hook_error' = f.error
                /\ log' = Append(log, StartEvent(disk.coredata)) \o f.events
                /\ hook'.meson = f.hook.meson
                /\ hook'.ninja = f.hook.ninja]_vars

\* C24: a wheel build leaves two process-wide values behind, the environment
\* variables NINJA and _PYTHON_HOST_PLATFORM, and sets each only when it is
\* not set yet: every other variable of os.environ, and these two once set,
\* are after the build what they were before it.
C24_OnlyHookVariablesSet ==
    [][WheelBuildStep =>
         /\ DOMAIN environ \subseteq DOMAIN environ'
         /\ DOMAIN environ' \ DOMAIN environ \subseteq HookVariables
         /\ \A k \in DOMAIN environ : environ'[k] = environ[k]]_vars

\* A later build of the process stopped because the _PYTHON_HOST_PLATFORM an
\* earlier build left does not fit its ARCHFLAGS.
C24_Witness ==
    /\ Builds > 1
    /\ pc = "failed"
    /\ hook_error = ConfigError("$ARCHFLAGS and $_PYTHON_HOST_PLATFORM do not agree",
                                getenv(environ, "ARCHFLAGS"))
    /\ HookVariables \subseteq DOMAIN environ

\* The interpreter is a free-threaded build (Py_GIL_DISABLED).
FreeThreaded == system.gil_disabled

\* The install plan of the build was read.
InstallPlanRead ==
    \E i \in 1..Len(log) : log[i] = InfoEvent("intro-install_plan") \/ log[i] = MapEvent

\* C25: with the limited API in effect on a free-threaded interpreter, a
\* build that gets past "meson setup" stops with the BuildError about the
\* limited API: "meson setup" is the only command run, the install plan is
\* not read and build_data is as it was; the error is raised in no other
\* case, so a project whose Meson option switches the limited API off is
\* built without it.
C25_FreeThreadedLimitedApi ==
    /\ (pc # "start" /\ LimitedRequested /\ LimitedAllowed /\ FreeThreaded) =>
           /\ pc = "failed"
           /\ Len(Runs) <= 1
           /\ ~InstallPlanRead
           /\ build_data = InitialBuildData
           /\ (Len(Runs) = 1 /\ hook_error.type # "SystemExit") =>
                  hook_error = FreeThreadedError
    /\ hook_error = FreeThreadedError =>
           /\ LimitedRequested /\ LimitedAllowed /\ FreeThreaded
           /\ hook_error.type = "BuildError"
           /\ Len(Runs) = 1
           /\ Runs[1].cmd[2] = W_setup
    /\ (pc \in {"built", "done"} /\ LimitedRequested /\ FreeThreaded) => ~LimitedAllowed

\* A free-threaded build with the limited API in effect stopped right after
\* "meson setup".
C25_Witness ==
    /\ pc = "failed"
    /\ hook_error = FreeThreadedError
    /\ FreeThreaded /\ LimitedRequested /\ LimitedAllowed
    /\ Len(Runs) = 1
    /\ BuildOptionsRead
    /\ build_data = InitialBuildData

\* The step is initialize for a target other than the wheel.
OtherTargetStep == pc = "start" /\ pc' # "start" /\ hook.target_name # "wheel"

\* C26: for a target other than 'wheel' (an sdist) initialize runs no
\* command and reads no install plan, and leaves build_data and the exclude
\* lists of the build configuration as they were.
C26_SdistDoesNothing ==
    [][OtherTargetStep =>
         /\ pc' = "done"
         /\ log' = Append(log, StartEvent(disk.coredata))
         /\ build_data' = build_data
         /\ build_data' = InitialBuildData
         /\ hook' = hook
         /\ hook'.build_config = [loaded |-> FALSE]
         /\ <<environ, disk, install_plan, copied, hook_error>>'
                = <<environ, disk, install_plan, copied, hook_error>>]_vars

\* An sdist was built in a project that has exclude lists: nothing ran and
\* they were not touched.
C26_Witness ==
    /\ hook.target_name = "sdist"
    /\ pc = "done"
    /\ Runs = <<>>
    /\ ~InstallPlanRead
    /\ config.build_config.wheel.has
    /\ ~hook.build_config.loaded
    /\ build_data = InitialBuildData

\* C27: a command that ends with a non-zero status ends the build at once
\* with SystemExit of that status: it is the last command run (no compile
\* after a failed "meson setup"), the install plan is not read after it, and
\* build_data gets no tag, script, data, force_include or artifact.
C27_FailedCommandExits ==
    \A i \in 1..Len(Runs) :
        Runs[i].returncode # 0 =>
            /\ i = Len(Runs)
            /\ pc = "failed"
            /\ hook_error.type = "SystemExit"
            /\ hook_error.code = Runs[i].returncode
            /\ ~InstallPlanRead
            /\ build_data = InitialBuildData
            /\ copied = <<>>

\* The compile command ended with status 2 after a good "meson setup".
C27_Witness ==
    /\ Len(Runs) = 2
    /\ Runs[1].cmd[2] = W_setup
    /\ Runs[1].returncode = 0
    /\ Runs[2].returncode = 2
    /\ pc = "failed"
    /\ hook_error.type = "SystemExit"
    /\ hook_error.code = 2

\* The record has a destination under a placeholder of the table.
Mappable(rec) ==
    "destination" \in DOMAIN rec.target /\ Anchor(rec) \in DOMAIN PlaceholderBucket

\* The records the filter passes over.
Dropped == SelectSeq(sources, LAMBDA rec : ~Wanted(rec))

\* C28: the install plan is filtered before it is mapped: the outcome of
\* reading the plan is the mapper's outcome on the surviving records alone,
\* so a dropped record adds no entry to a bucket and stops nothing, even
\* with a placeholder the table does not have, and the purity, mixed-layout
\* and stable-ABI decisions are those of the surviving records.
C28_FilterBeforeMapping ==
    FilterRan =>
        /\ \E scan \in ScanOrders :
             \E m \in {_map_to_wheel(SelectSeq(sources, Wanted), scan)} :
               /\ call.outcome.raised = m.raised
               /\ m.raised => call.outcome.error = m.error
               /\ ~m.raised =>
                      /\ call.outcome.value = m.value
                      /\ _install_is_pure(call.outcome.value, platform)
                             = _install_is_pure(m.value, platform)
                      /\ mixed_layout(call.outcome.value) = mixed_layout(m.value)
                      /\ _compute_stable_abi(call.outcome.value, TRUE, pypy)
                             = _compute_stable_abi(m.value, TRUE, pypy)
        /\ (\A i \in 1..Len(sources) : Wanted(sources[i]) => Mappable(sources[i]))
               => ~call.outcome.raised

\* A record under {includedir} is dropped for its tag and the record kept is
\* mapped.
C28_Witness ==
    /\ FilterRan
    /\ \E i \in 1..Len(Dropped) : ~Mappable(Dropped[i])
    /\ call.outcome.sources = <<R_rt_main>>
    /\ ~call.outcome.raised
    /\ DDGet(call.outcome.value, "purelib") # <<>>

\* The dot-separated segments of the file name of a bucket entry.
NameSegments(entry) == Split(PathName(entry[1]), ".")

\* The file name of the entry ends with so, pyd or dll.
EndsLikeExtension(entry) ==
    /\ Len(NameSegments(entry)) >= 2
    /\ NameSegments(entry)[Len(NameSegments(entry))] \in ExtensionSuffixes

\* The whole text between the first and the last segment of the file name.
MiddleText(entry) ==
    LET name == PathName(entry[1])
        segs == NameSegments(entry)
    IN SubSeq(name, Len(segs[1]) + 2, Len(name) - Len(segs[Len(segs)]) - 1)

\* The audit of the stable ABI ran on the plan.
Audited == TagCalled /\ limited_api /\ ~pypy

\* C29 as stated: the ABI tag the audit checks is the whole text between the
\* first and the last segment of the name, however many dots it has, and
\* the audit fails whenever that text is there and is not abi3.
C29_AbiIsWholeMiddle ==
    Audited =>
        \A i \in 1..Len(DDGet(TagPlan, "platlib")) :
            (/\ EndsLikeExtension(TagPlan["platlib"][i])
             /\ Len(NameSegments(TagPlan["platlib"][i])) >= 3
             /\ MiddleText(TagPlan["platlib"][i]) # abi3)
            => TagOutcome.raised

\* The name has the form name.abi.suffix: three segments, the first two not
\* empty, the last so, pyd or dll.
ThreeSegments(entry) ==
    /\ Len(NameSegments(entry)) = 3
    /\ NameSegments(entry)[1] # <<>>
    /\ NameSegments(entry)[2] # <<>>
    /\ NameSegments(entry)[3] \in ExtensionSuffixes

\* C29: the ABI tag the audit checks is the middle segment of a file name of
\* exactly three dot-separated segments ending with so, pyd or dll; the
\* audit fails exactly when some platlib entry has such a name with a middle
\* segment other than abi3, and a name with more dots is not audited.
C29_AbiIsMiddleOfThree ==
    Audited =>
        (TagOutcome.raised <=>
            \E i \in 1..Len(DDGet(TagPlan, "platlib")) :
                /\ ThreeSegments(TagPlan["platlib"][i])
                /\ NameSegments(TagPlan["platlib"][i])[2] # abi3)

\* w.cp3.x.so alone in platlib passes the audit and the wheel is tagged abi3.
C29_Witness ==
    /\ Audited
    /\ Len(DDGet(TagPlan, "platlib")) = 1
    /\ PathName(TagPlan["platlib"][1][1]) = N_w_cp3_x_so
    /\ MiddleText(TagPlan["platlib"][1]) = cp3 \o <<".", "x">>
    /\ ~TagOutcome.raised
    /\ TagOutcome.value.abi = "abi3"

\* The purelib and platlib entries of the build, in the order of the copy
\* loop.
LibEntries == DDGet(install_plan, "purelib") \o DDGet(install_plan, "platlib")

\* The package source directory the build copied into.
PkgSrcs == { IF ps = <<>> THEN SourceDir ELSE SourceDir \o ps[1] : ps \in PackageSources }

\* C30: after a successful wheel build pure_python is False exactly when the
\* install is not pure, which is exactly when the platform field of the tag
\* is not 'any'; a pure install leaves pure_python alone and is tagged
\* py3-none-any; every purelib or platlib entry has its one row of
\* force_include and its one artifact, in the order of the entries; a file
\* is copied exactly when its destination differs from its source.
C30_PurityAndArtifacts ==
    pc = "done" =>
        /\ build_data.pure_python = _install_is_pure(install_plan, platform)
        /\ _install_is_pure(install_plan, platform) <=> build_data.tag[5] = "any"
        /\ _install_is_pure(install_plan, platform) =>
               build_data.tag = <<"py3", "-", "none", "-", "any">>
        /\ \E pkgsrc \in PkgSrcs :
               /\ build_data.artifacts = [i \in 1..Len(LibEntries) |-> pkgsrc \o LibEntries[i][1]]
               /\ DOMAIN build_data.force_include
                      = { pkgsrc \o LibEntries[i][1] : i \in 1..Len(LibEntries) }
               /\ \A i \in 1..Len(LibEntries) :
                      build_data.force_include[pkgsrc \o LibEntries[i][1]] = LibEntries[i][1]
               /\ copied = SelectSeq([i \in 1..Len(LibEntries) |->
                                         <<LibEntries[i][2], pkgsrc \o LibEntries[i][1]>>],
                                     LAMBDA c : c[1] # c[2])

\* A pure build with the package sources where the files are: m.py is in
\* force_include and in the artifacts and is not copied onto itself.
C30_Witness ==
    /\ pc = "done"
    /\ build_data.pure_python
    /\ build_data.tag = <<"py3", "-", "none", "-", "any">>
    /\ Len(LibEntries) = 1
    /\ LibEntries[1][2] = BuildRoot \o LibEntries[1][1]
    /\ build_data.artifacts = <<LibEntries[1][2]>>
    /\ LibEntries[1][2] \in DOMAIN build_data.force_include
    /\ copied = <<>>
====
